---- MODULE Spec2Model ----
(***************************************************************************)
(* A model of thor, a Prometheus push and aggregation gateway: the         *)
(* in-memory MetricStorage (storage/storage.go), its write pipeline        *)
(* (SubmitWriteRequest, loop), its health probe, the label and            *)
(* metric-family utilities (utils), and the push and delete handlers: the  *)
(* job of the route, the Done channel and the status they answer.          *)
(*                                                                         *)
(* Strings that the code sorts or concatenates (label names and values,    *)
(* grouping keys) are sequences of byte values; family names, types and    *)
(* error kinds, which the code only compares for equality, are TLA+        *)
(* strings.  float64 and uint64 payloads are integers.                     *)
(***************************************************************************)
EXTENDS Integers, Sequences, FiniteSets, Bags, TLC

----------------------------------------------------------------------------
(* Byte strings *)

\* model.SeparatorByte of prometheus/common, written by GroupingKeyFor.
SeparatorByte == 255

\* "job", the grouping label every push carries (handler.Push).
JobLabel == <<106, 111, 98>>

\* model.InstanceLabel, "instance".
InstanceLabel == <<105, 110, 115, 116, 97, 110, 99, 101>>

\* "a", a label name producers use inside metrics.
NameA == <<97>>

\* Label values: "", "x", "y".
ValEmpty == <<>>
ValX == <<120>>
ValY == <<121>>

\* The element of a one-element set.  {F(v) : v \in {e}} computes e once,
\* however often F uses v.
The(S) == CHOOSE x \in S : TRUE

\* Go's string order (bytewise, a proper prefix first), as sort.Strings and
\* LabelPairs.Less compare.
RECURSIVE StrLess(_, _)
StrLess(s, t) ==
    IF t = <<>> THEN FALSE
    ELSE IF s = <<>> THEN TRUE
    ELSE IF Head(s) # Head(t) THEN Head(s) < Head(t)
    ELSE StrLess(Tail(s), Tail(t))

\* sort.Strings over the names of a label map.
RECURSIVE SortStrings(_)
SortStrings(S) ==
    IF S = {} THEN <<>>
    ELSE The({<<least>> \o The({SortStrings(rest) : rest \in {S \ {least}}}) :
                 least \in {s \in S : \A t \in S \ {s} : StrLess(s, t)}})

\* The optional fields of the protobuf messages: <<>> is nil, <<v>> is set.
Nil == <<>>
Some(v) == <<v>>

----------------------------------------------------------------------------
(* utils: grouping keys *)

\* The loop of GroupingKeyFor as it would be without the test i+1 < len: a
\* separator after the last value too.
RECURSIVE JoinKey_SeparatorAtEnd(_, _, _)
JoinKey_SeparatorAtEnd(labelNames, labels, i) ==
    IF i > Len(labelNames) THEN <<>>
    ELSE labelNames[i] \o <<SeparatorByte>> \o labels[labelNames[i]]
         \o <<SeparatorByte>> \o JoinKey_SeparatorAtEnd(labelNames, labels, i + 1)

RECURSIVE JoinKey(_, _, _)
JoinKey(labelNames, labels, i) ==
    IF i > Len(labelNames) THEN <<>>
    ELSE labelNames[i] \o <<SeparatorByte>> \o labels[labelNames[i]]
         \o (IF i + 1 <= Len(labelNames) THEN <<SeparatorByte>> ELSE <<>>)
         \o JoinKey(labelNames, labels, i + 1)

GroupingKeyFor(labels) ==
    IF DOMAIN labels = {} THEN <<>>
    ELSE The({JoinKey(labelNames, labels, 1) :
                 labelNames \in {SortStrings(DOMAIN labels)}})

\* The map GroupingKeyForLabelPair builds: a later pair of the same name
\* overwrites an earlier one.
LabelPairMap(pairs) ==
    [n \in {pairs[i].Name : i \in DOMAIN pairs} |->
        LET last == CHOOSE i \in DOMAIN pairs :
                        /\ pairs[i].Name = n
                        /\ \A j \in DOMAIN pairs : pairs[j].Name = n => j <= i
        IN  pairs[last].Value]

GroupingKeyForLabelPair(pairs) ==
    The({GroupingKeyFor(labels) : labels \in {LabelPairMap(pairs)}})

----------------------------------------------------------------------------
(* utils: label pairs of a metric *)

\* An insertion that puts a pair before the pairs of its own name: the sort
\* built on it turns the order of pairs of equal name round.
RECURSIVE InsertPair_BeforeEqual(_, _)
InsertPair_BeforeEqual(sorted, p) ==
    IF sorted = <<>> THEN <<p>>
    ELSE IF ~StrLess(Head(sorted).Name, p.Name) THEN <<p>> \o sorted
    ELSE <<Head(sorted)>> \o InsertPair_BeforeEqual(Tail(sorted), p)

\* sort.Sort(LabelPairs(m.Label)): ascending by name.  Pairs of equal name,
\* whose relative order sort.Sort leaves open, keep their order here.
RECURSIVE InsertPair(_, _)
InsertPair(sorted, p) ==
    IF sorted = <<>> THEN <<p>>
    ELSE IF StrLess(p.Name, Head(sorted).Name) THEN <<p>> \o sorted
    ELSE <<Head(sorted)>> \o The({InsertPair(rest, p) : rest \in {Tail(sorted)}})

RECURSIVE SortLabelPairs(_)
SortLabelPairs(pairs) ==
    IF pairs = <<>> THEN <<>>
    ELSE The({InsertPair(sorted, pairs[Len(pairs)]) :
                 sorted \in {The({SortLabelPairs(front) :
                                     front \in {SubSeq(pairs, 1, Len(pairs) - 1)}})}})

\* The pairs appended for the grouping labels still missing; the map is
\* ranged over in an order the sort that follows makes irrelevant.
RECURSIVE PairsOf(_, _)
PairsOf(names, labels) ==
    IF names = <<>> THEN <<>>
    ELSE <<[Name |-> Head(names), Value |-> labels[Head(names)]]>>
         \o The({PairsOf(rest, labels) : rest \in {Tail(names)}})

\* The loop of SanitizeLabels over one metric's label pairs, from pair i on:
\* notYet is gLabelsNotYetDone (the names still in it), hasInst is
\* hasInstanceLabel.  It ends early once nothing is left to do.
RECURSIVE SanitizeScan(_, _, _, _, _)
SanitizeScan(label, i, notYet, hasInst, groupingLabels) ==
    IF i > Len(label)
    THEN The({SortLabelPairs(
                  IF hasInst \/ InstanceLabel \in notYet THEN appended
                  ELSE Append(appended, [Name |-> InstanceLabel, Value |-> ValEmpty])) :
                 appended \in {label \o The({PairsOf(names, groupingLabels) :
                                                names \in {SortStrings(notYet)}})}})
    ELSE LET ln == label[i].Name
             hit == ln \in notYet
             label2 == IF hit
                       THEN [label EXCEPT ![i].Value = groupingLabels[ln]]
                       ELSE label
             notYet2 == IF hit THEN notYet \ {ln} ELSE notYet
             hasInst2 == hasInst \/ ln = InstanceLabel
         IN  The({IF n2 = {} /\ h2
                  THEN SortLabelPairs(l2)
                  ELSE SanitizeScan(l2, i + 1, n2, h2, groupingLabels) :
                     l2 \in {label2}, n2 \in {notYet2}, h2 \in {hasInst2}})

SanitizeMetric(m, groupingLabels) ==
    [m EXCEPT !.Label = SanitizeScan(m.Label, 1, DOMAIN groupingLabels, FALSE,
                                     groupingLabels)]

SanitizeLabels(mf, groupingLabels) ==
    [mf EXCEPT !.Metric = [i \in DOMAIN mf.Metric |->
                              SanitizeMetric(mf.Metric[i], groupingLabels)]]

\* TimestampsPresent as it would be if it looked at no metric.
TimestampsPresent_Never(metricFamilies) == FALSE

TimestampsPresent(metricFamilies) ==
    \E n \in DOMAIN metricFamilies :
        \E i \in DOMAIN metricFamilies[n].Metric :
            metricFamilies[n].Metric[i].TimestampMs # Nil

\* proto.Clone: the model's values are immutable, a deep copy is the value.
CopyMetricFamily(mf) == mf

----------------------------------------------------------------------------
(* storage: the merge engine *)
(* A metric is [Label, TimestampMs, Value]; Value is the payload of the    *)
(* family's type: [Value] for a counter, a gauge or an untyped metric,     *)
(* [SampleCount, SampleSum, Bucket] for a histogram, [SampleCount,         *)
(* SampleSum, Quantile] for a summary.  A family is [Name, Help, Type,     *)
(* Metric].                                                                *)
(*                                                                         *)
(* The code merges through pointers: a bucket that mergeBuckets appends to *)
(* b1 is the very bucket object of the request's metric, so a later merge  *)
(* into the same stored metric adds to the request's bucket as well.  The  *)
(* operators below carry, beside the bucket list b1 of a stored metric,    *)
(* the list r1 of where each bucket came from (Nil: its own object,        *)
(* Some(<<k, l>>): bucket l of metric k of the incoming family), and the   *)
(* incoming metrics req, and return all three.                             *)

\* The index mm[...] holds for a key: the last element carrying it, 0 if none.
LastIndexOf(keys, k) ==
    IF \E i \in DOMAIN keys : keys[i] = k
    THEN CHOOSE i \in DOMAIN keys :
             keys[i] = k /\ \A j \in DOMAIN keys : keys[j] = k => j <= i
    ELSE 0

\* *b1Bucket.CumulativeCount += add, for bucket idx of b1: a bucket that came
\* from the incoming family is that family's bucket too.
AddToBucket(acc, idx, add) ==
    [b1 |-> [acc.b1 EXCEPT ![idx].CumulativeCount = @ + add],
     r1 |-> acc.r1,
     req |-> IF acc.r1[idx] = Nil THEN acc.req
             ELSE [acc.req EXCEPT
                      ![acc.r1[idx][1][1]].Value.Bucket[acc.r1[idx][1][2]].CumulativeCount
                          = @ + add]]

\* One turn of the loop of mergeBuckets, for bucket l of req[k]; idx is what
\* the map mm holds for its upper bound.
mergeBucketsTurn(acc, idx, k, l) ==
    IF idx = 0
    THEN [acc EXCEPT !.b1 = Append(@, acc.req[k].Value.Bucket[l]),
                     !.r1 = Append(@, Some(<<k, l>>))]
    ELSE AddToBucket(acc, idx, acc.req[k].Value.Bucket[l].CumulativeCount)

\* The loop of mergeBuckets over the buckets of b2 = req[k].Value.Bucket, from
\* bucket l on; bounds1 are the upper bounds of b1 as the call found it.
RECURSIVE mergeBucketsLoop(_, _, _, _)
mergeBucketsLoop(acc, bounds1, k, l) ==
    IF l > Len(acc.req[k].Value.Bucket) THEN acc
    ELSE The({mergeBucketsLoop(turned, bounds1, k, l + 1) :
                 turned \in {mergeBucketsTurn(
                     acc, LastIndexOf(bounds1, acc.req[k].Value.Bucket[l].UpperBound),
                     k, l)}})

\* mergeBuckets as it would be without the map mm: every bucket of b2 is
\* appended.
mergeBuckets_AppendAll(b1, r1, req, k) ==
    mergeBucketsLoop([b1 |-> b1, r1 |-> r1, req |-> req], <<>>, k, 1)

mergeBuckets(b1, r1, req, k) ==
    mergeBucketsLoop([b1 |-> b1, r1 |-> r1, req |-> req],
                     [i \in DOMAIN b1 |-> b1[i].UpperBound], k, 1)

\* The histogram case of mergeMetrics, b being what mergeBuckets returned.
mergeHistograms(m1, m2, b) ==
    [m1 |-> [m1 EXCEPT !.Value.SampleCount = @ + m2.Value.SampleCount,
                       !.Value.SampleSum = @ + m2.Value.SampleSum,
                       !.Value.Bucket = b.b1],
     r1 |-> b.r1, req |-> b.req]

\* mergeMetrics as it would be if a counter were set like a gauge.
mergeMetrics_CounterSet(mt, m1, r1, req, k) ==
    CASE mt = "HISTOGRAM" ->
            The({mergeHistograms(m1, req[k], b) :
                    b \in {mergeBuckets(m1.Value.Bucket, r1, req, k)}})
      [] OTHER ->
            [m1 |-> [m1 EXCEPT !.Value = req[k].Value], r1 |-> r1, req |-> req]

\* mergeMetrics as it would be if only counters and histograms were merged
\* and every other stored payload were kept.
mergeMetrics_KeepFirst(mt, m1, r1, req, k) ==
    CASE mt = "COUNTER" ->
            [m1 |-> [m1 EXCEPT !.Value.Value = @ + req[k].Value.Value],
             r1 |-> r1, req |-> req]
      [] mt = "HISTOGRAM" ->
            The({mergeHistograms(m1, req[k], b) :
                    b \in {mergeBuckets(m1.Value.Bucket, r1, req, k)}})
      [] OTHER -> [m1 |-> m1, r1 |-> r1, req |-> req]

\* mergeMetrics(mt, m1, m2) with m2 = req[k]; r1 as above for m1's buckets.
mergeMetrics(mt, m1, r1, req, k) ==
    CASE mt = "COUNTER" ->
            [m1 |-> [m1 EXCEPT !.Value.Value = @ + req[k].Value.Value],
             r1 |-> r1, req |-> req]
      [] mt = "GAUGE" ->
            [m1 |-> [m1 EXCEPT !.Value.Value = req[k].Value.Value],
             r1 |-> r1, req |-> req]
      [] mt = "HISTOGRAM" ->
            The({mergeHistograms(m1, req[k], b) :
                    b \in {mergeBuckets(m1.Value.Bucket, r1, req, k)}})
      [] mt = "SUMMARY" ->
            [m1 |-> [m1 EXCEPT !.Value = req[k].Value], r1 |-> r1, req |-> req]
      [] mt = "UNTYPED" ->
            [m1 |-> [m1 EXCEPT !.Value.Value = req[k].Value.Value],
             r1 |-> r1, req |-> req]

\* f1's metric idx and the incoming metrics after mergeMetrics returned r.
Merged(acc, idx, r) ==
    [m1 |-> [acc.m1 EXCEPT ![idx] = r.m1],
     r1 |-> [acc.r1 EXCEPT ![idx] = r.r1],
     req |-> r.req]

\* mergeFamilies as it would be without the map mm: every metric of f2 is
\* appended.
mergeFamiliesTurn_AppendAlways(acc, mt, idx, k) ==
    [acc EXCEPT !.m1 = Append(@, acc.req[k]), !.r1 = Append(@, <<>>)]

\* One turn of the second loop of mergeFamilies, for metric k of f2; idx is
\* what the map mm holds for its grouping key.
mergeFamiliesTurn(acc, mt, idx, k) ==
    IF idx = 0
    THEN [acc EXCEPT !.m1 = Append(@, acc.req[k]), !.r1 = Append(@, <<>>)]
    ELSE The({Merged(acc, idx, r) :
                 r \in {mergeMetrics(mt, acc.m1[idx], acc.r1[idx], acc.req, k)}})

\* The second loop of mergeFamilies, from metric k of f2 on.  keys1 are the
\* grouping keys of f1's metrics as the call found them (the map mm).
RECURSIVE mergeFamiliesLoop(_, _, _, _)
mergeFamiliesLoop(acc, mt, keys1, k) ==
    IF k > Len(acc.req) THEN acc
    ELSE The({mergeFamiliesLoop(turned, mt, keys1, k + 1) :
                 turned \in {mergeFamiliesTurn(
                     acc, mt,
                     LastIndexOf(keys1, GroupingKeyForLabelPair(acc.req[k].Label)),
                     k)}})

\* The buckets of a stored metric are its own objects when a merge starts.
OwnBuckets(mt, m) ==
    IF mt = "HISTOGRAM" THEN [i \in DOMAIN m.Value.Bucket |-> Nil] ELSE <<>>

\* Both families as the loops of mergeFamilies left their metrics (r).
FamiliesMerged(f1, f2, r) ==
    [err |-> "nil",
     f1 |-> [f1 EXCEPT !.Metric = r.m1],
     f2 |-> [f2 EXCEPT !.Metric = r.req]]

\* mergeFamilies(f1, f2): [err, f1, f2], f1 merged and f2 as the merge left it.
mergeFamilies(f1, f2) ==
    IF f1.Type # f2.Type
    THEN [err |-> "TypeConflict", f1 |-> f1, f2 |-> f2]
    ELSE The({FamiliesMerged(f1, f2, r) :
                 r \in {mergeFamiliesLoop(
                     [m1 |-> f1.Metric,
                      r1 |-> [i \in DOMAIN f1.Metric |->
                                 OwnBuckets(f1.Type, f1.Metric[i])],
                      req |-> f2.Metric],
                     f1.Type,
                     [i \in DOMAIN f1.Metric |->
                         GroupingKeyForLabelPair(f1.Metric[i].Label)],
                     1)}})

\* The families maps of both groups after mergeFamilies returned r for key.
GroupsMerged(g1, g2, key, r) ==
    [g1 |-> [g1 EXCEPT ![key] = r.f1], g2 |-> [g2 EXCEPT ![key] = r.f2]]

\* mergeGroups as it would be if a family that cannot be merged took the
\* place of the stored one.
mergeGroupsStep_Overwrite(g1, g2, key) ==
    IF key \notin DOMAIN g1
    THEN [g1 |-> [n \in DOMAIN g1 \cup {key} |->
                     IF n = key THEN g2[key] ELSE g1[n]],
          g2 |-> g2]
    ELSE IF g1[key].Type # g2[key].Type
    THEN [g1 |-> [g1 EXCEPT ![key] = g2[key]], g2 |-> g2]
    ELSE The({GroupsMerged(g1, g2, key, r) : r \in {mergeFamilies(g1[key], g2[key])}})

\* One turn of the loop of mergeGroups, for the family of g2 named key:
\* [g1, g2] with the families maps of both groups as the turn leaves them.
\* A family that fails to merge is skipped (logged only).
mergeGroupsStep(g1, g2, key) ==
    IF key \notin DOMAIN g1
    THEN [g1 |-> [n \in DOMAIN g1 \cup {key} |->
                     IF n = key THEN g2[key] ELSE g1[n]],
          g2 |-> g2]
    ELSE The({GroupsMerged(g1, g2, key, r) : r \in {mergeFamilies(g1[key], g2[key])}})

\* mergeGroups over the families of g2 named in todo, g being [g1, g2].  The
\* turns touch different families of g1, so the map's iteration order does
\* not matter.
RECURSIVE mergeGroupsFrom(_, _, _)
mergeGroupsFrom(g, todo, key) ==
    IF todo = {} THEN g
    ELSE The({mergeGroupsFrom(stepped, todo \ {key},
                              IF todo = {key} THEN key
                              ELSE CHOOSE n \in todo \ {key} : TRUE) :
                 stepped \in {mergeGroupsStep(g.g1, g.g2, key)}})

mergeGroups(g1, g2) ==
    IF DOMAIN g2 = {} THEN [g1 |-> g1, g2 |-> g2]
    ELSE mergeGroupsFrom([g1 |-> g1, g2 |-> g2], DOMAIN g2,
                         CHOOSE n \in DOMAIN g2 : TRUE)

----------------------------------------------------------------------------
(* storage: the store, its snapshots and the validator *)
(* metricGroups maps a grouping key to a MetricGroup [Labels,              *)
(* MetricFamilies]; MetricFamilies maps a family name to a family.  A      *)
(* WriteRequest is [id, Labels, MetricFamilies, Replace, Done]:            *)
(* MetricFamilies is Nil (a delete) or Some(map), Done is Nil or           *)
(* Some(channel); id is the position of the request among the submissions. *)

RECURSIVE SumOver(_, _)
SumOver(S, f) ==
    IF S = {} THEN 0
    ELSE The({f[e] + The({SumOver(rest, f) : rest \in {S \ {e}}}) :
                 e \in {CHOOSE e \in S : TRUE}})

\* GetMetricGroups as it would be if it put the store's families into the
\* copied groups as they are: every family of the copy is the store's object.
SharedFamilies_All(metricGroups) ==
    UNION {{k} \X DOMAIN metricGroups[k].MetricFamilies : k \in DOMAIN metricGroups}

\* The places <<key, name>> at which what GetMetricGroups returns holds the
\* store's own family object: none, each family being the clone
\* CopyMetricFamily makes.
SharedFamilies(metricGroups) == {}

\* The real store once processWriteRequest has run on the groups
\* GetMetricGroups returned, testGroups being what it made of them.  The maps
\* are the copy's own; a merge (no Replace) changes the families of the
\* copy's group in place, and where such a family is the store's object the
\* store holds the merged family too.
StoreAfterTrial(metricGroups, testGroups, replace) ==
    [k \in DOMAIN metricGroups |->
        [Labels |-> metricGroups[k].Labels,
         MetricFamilies |->
             [n \in DOMAIN metricGroups[k].MetricFamilies |->
                 IF /\ ~replace
                    /\ <<k, n>> \in SharedFamilies(metricGroups)
                    /\ k \in DOMAIN testGroups
                    /\ n \in DOMAIN testGroups[k].MetricFamilies
                 THEN testGroups[k].MetricFamilies[n]
                 ELSE metricGroups[k].MetricFamilies[n]]]]

\* GetMetricGroups: the copy of the store the deep check works on.
GetMetricGroups(metricGroups) ==
    [k \in DOMAIN metricGroups |->
        [Labels |-> metricGroups[k].Labels,
         MetricFamilies |-> [n \in DOMAIN metricGroups[k].MetricFamilies |->
                                CopyMetricFamily(metricGroups[k].MetricFamilies[n])]]]

\* GetMetricFamilies: the copies of every family of every group.  The code
\* returns a slice in map order, which is unspecified: the result is a bag.
GetMetricFamilies(metricGroups) ==
    LET slots == {<<k, n>> \in
                     UNION {{k} \X DOMAIN metricGroups[k].MetricFamilies :
                                k \in DOMAIN metricGroups} : TRUE}
        copy(s) == CopyMetricFamily(metricGroups[s[1]].MetricFamilies[s[2]])
        families == {copy(s) : s \in slots}
    IN  [f \in families |-> Cardinality({s \in slots : copy(s) = f})]

\* The label signature checkMetricConsistency hashes: the pairs in name order.
Signature(m) == SortLabelPairs(m.Label)

\* A gathering that compares the types and helps of the families only, and
\* not the labels of their metrics.
Gather_TypesOnly(families) ==
    IF \E f, g \in BagToSet(families) :
           f.Name = g.Name /\ (f.Type # g.Type \/ f.Help # g.Help)
    THEN "InconsistentOnGather"
    ELSE "nil"

\* prometheus.Gatherers.Gather over the families of the trial store: an error
\* when two families of one name differ in type or help, or when two metrics
\* under one family name carry the same labels.
Gather(families) ==
    LET fs == BagToSet(families)
        occurrences(name, sig) ==
            SumOver(fs, [f \in fs |->
                IF f.Name # name THEN 0
                ELSE CopiesIn(f, families)
                     * Cardinality({i \in DOMAIN f.Metric :
                                       Signature(f.Metric[i]) = sig})])
    IN  IF \/ \E f, g \in fs :
                 f.Name = g.Name /\ (f.Type # g.Type \/ f.Help # g.Help)
           \/ \E f \in fs : \E i \in DOMAIN f.Metric :
                 occurrences(f.Name, Signature(f.Metric[i])) > 1
        THEN "InconsistentOnGather"
        ELSE "nil"

\* The store and the request after mergeGroups returned r.
GroupMerged(metricGroups, wr, groupingKey, r) ==
    [ms |-> [metricGroups EXCEPT ![groupingKey].MetricFamilies = r.g1],
     wr |-> [wr EXCEPT !.MetricFamilies = Some(r.g2)]]

\* processWriteRequest as it would be if a request without families left
\* the store alone.
processWriteRequestAt_NoDelete(metricGroups, wr, groupingKey) ==
    IF wr.MetricFamilies = Nil
    THEN [ms |-> metricGroups, wr |-> wr]
    ELSE IF groupingKey \notin DOMAIN metricGroups \/ wr.Replace
    THEN [ms |-> [k \in DOMAIN metricGroups \cup {groupingKey} |->
                     IF k = groupingKey
                     THEN [Labels |-> wr.Labels, MetricFamilies |-> wr.MetricFamilies[1]]
                     ELSE metricGroups[k]],
          wr |-> wr]
    ELSE The({GroupMerged(metricGroups, wr, groupingKey, r) :
                 r \in {mergeGroups(metricGroups[groupingKey].MetricFamilies,
                                    wr.MetricFamilies[1])}})

\* processWriteRequest as it would be if Replace were ignored: a request for
\* a key that has a group is merged.
processWriteRequestAt_MergeAlways(metricGroups, wr, groupingKey) ==
    IF wr.MetricFamilies = Nil
    THEN [ms |-> [k \in DOMAIN metricGroups \ {groupingKey} |-> metricGroups[k]],
          wr |-> wr]
    ELSE IF groupingKey \notin DOMAIN metricGroups
    THEN [ms |-> [k \in DOMAIN metricGroups \cup {groupingKey} |->
                     IF k = groupingKey
                     THEN [Labels |-> wr.Labels, MetricFamilies |-> wr.MetricFamilies[1]]
                     ELSE metricGroups[k]],
          wr |-> wr]
    ELSE The({GroupMerged(metricGroups, wr, groupingKey, r) :
                 r \in {mergeGroups(metricGroups[groupingKey].MetricFamilies,
                                    wr.MetricFamilies[1])}})

\* processWriteRequest as it would be if it took a request with no family,
\* its map nil or empty, for a delete.
processWriteRequestAt_EmptyDeletes(metricGroups, wr, groupingKey) ==
    IF wr.MetricFamilies = Nil \/ DOMAIN wr.MetricFamilies[1] = {}
    THEN [ms |-> [k \in DOMAIN metricGroups \ {groupingKey} |-> metricGroups[k]],
          wr |-> wr]
    ELSE IF groupingKey \notin DOMAIN metricGroups \/ wr.Replace
    THEN [ms |-> [k \in DOMAIN metricGroups \cup {groupingKey} |->
                     IF k = groupingKey
                     THEN [Labels |-> wr.Labels, MetricFamilies |-> wr.MetricFamilies[1]]
                     ELSE metricGroups[k]],
          wr |-> wr]
    ELSE The({GroupMerged(metricGroups, wr, groupingKey, r) :
                 r \in {mergeGroups(metricGroups[groupingKey].MetricFamilies,
                                    wr.MetricFamilies[1])}})

\* processWriteRequest as it would be if a delete emptied the whole map.
processWriteRequestAt_DeleteAll(metricGroups, wr, groupingKey) ==
    IF wr.MetricFamilies = Nil THEN [ms |-> <<>>, wr |-> wr]
    ELSE IF groupingKey \notin DOMAIN metricGroups \/ wr.Replace
    THEN [ms |-> [k \in DOMAIN metricGroups \cup {groupingKey} |->
                     IF k = groupingKey
                     THEN [Labels |-> wr.Labels, MetricFamilies |-> wr.MetricFamilies[1]]
                     ELSE metricGroups[k]],
          wr |-> wr]
    ELSE The({GroupMerged(metricGroups, wr, groupingKey, r) :
                 r \in {mergeGroups(metricGroups[groupingKey].MetricFamilies,
                                    wr.MetricFamilies[1])}})

\* processWriteRequest past the computation of groupingKey.
processWriteRequestAt(metricGroups, wr, groupingKey) ==
    IF wr.MetricFamilies = Nil
    THEN [ms |-> [k \in DOMAIN metricGroups \ {groupingKey} |-> metricGroups[k]],
          wr |-> wr]
    ELSE IF groupingKey \notin DOMAIN metricGroups \/ wr.Replace
    THEN [ms |-> [k \in DOMAIN metricGroups \cup {groupingKey} |->
                     IF k = groupingKey
                     THEN [Labels |-> wr.Labels, MetricFamilies |-> wr.MetricFamilies[1]]
                     ELSE metricGroups[k]],
          wr |-> wr]
    ELSE The({GroupMerged(metricGroups, wr, groupingKey, r) :
                 r \in {mergeGroups(metricGroups[groupingKey].MetricFamilies,
                                    wr.MetricFamilies[1])}})

\* processWriteRequest as one call: [ms, wr], the store after it and the
\* request as the merge left it.
processWriteRequest(metricGroups, wr) ==
    The({processWriteRequestAt(metricGroups, wr, groupingKey) :
            groupingKey \in {GroupingKeyFor(wr.Labels)}})

\* validateConsistency without its first loop: no type is compared.
TypeConflict_Never(metricGroups, families) == FALSE

\* The first loop of validateConsistency: a stored family of the name of one
\* of the request's families, with another type.
TypeConflict(metricGroups, families) ==
    \E n \in DOMAIN families : \E k \in DOMAIN metricGroups :
        /\ families[n].Name \in DOMAIN metricGroups[k].MetricFamilies
        /\ metricGroups[k].MetricFamilies[families[n].Name].Type # families[n].Type

\* A validator that leaves the labels of the request as the producer sent
\* them.
Sanitized_Not(wr) == wr

\* The request with every family passed through SanitizeLabels.
Sanitized(wr) ==
    [wr EXCEPT !.MetricFamilies =
        Some([n \in DOMAIN wr.MetricFamilies[1] |->
                 SanitizeLabels(wr.MetricFamilies[1][n], wr.Labels)])]

\* The gathering over the test storage testMs, after the request was applied
\* to it.
GatherTest(testMs) ==
    The({[err |-> Gather(families), wr |-> testMs.wr] :
            families \in {GetMetricFamilies(testMs.ms)}})

\* validateConsistency as it would be if the gathering ran over the store as
\* it is, the request never applied to the test storage.
ExpensiveCheck_NoTrial(metricGroups, sanitized) ==
    IF sanitized.Done = Nil THEN [err |-> "nil", wr |-> sanitized, ms |-> metricGroups]
    ELSE [err |-> Gather(GetMetricFamilies(GetMetricGroups(metricGroups))),
          wr |-> sanitized, ms |-> metricGroups]

\* validateConsistency from the sanitizing on.
ExpensiveCheck(metricGroups, sanitized) ==
    IF sanitized.Done = Nil THEN [err |-> "nil", wr |-> sanitized, ms |-> metricGroups]
    ELSE The({The({[err |-> gathered.err, wr |-> gathered.wr,
                    ms |-> StoreAfterTrial(metricGroups, testMs.ms,
                                           sanitized.Replace)] :
                      gathered \in {GatherTest(testMs)}}) :
                 testMs \in {processWriteRequest(GetMetricGroups(metricGroups),
                                                 sanitized)}})

\* validateConsistency gets as far as ms.GetMetricGroups() on request wr: the
\* request has families that pass the first two checks, and a Done.
TakesSnapshot(metricGroups, wr) ==
    /\ wr.MetricFamilies # Nil
    /\ ~TypeConflict(metricGroups, wr.MetricFamilies[1])
    /\ ~TimestampsPresent(wr.MetricFamilies[1])
    /\ wr.Done # Nil

\* validateConsistency as it would be if a replacing request were taken as
\* it comes, only merges being validated.
validateConsistency_TrustReplace(metricGroups, wr) ==
    IF wr.MetricFamilies = Nil \/ wr.Replace THEN [err |-> "nil", wr |-> wr, ms |-> metricGroups]
    ELSE IF TypeConflict(metricGroups, wr.MetricFamilies[1])
    THEN [err |-> "TypeConflict", wr |-> wr, ms |-> metricGroups]
    ELSE IF TimestampsPresent(wr.MetricFamilies[1])
    THEN [err |-> "TimestampForbidden", wr |-> wr, ms |-> metricGroups]
    ELSE The({ExpensiveCheck(metricGroups, sanitized) : sanitized \in {Sanitized(wr)}})

\* validateConsistency(ms, wr): [err, wr, ms], the verdict, the request as
\* the validator left it (sanitized once the first two checks pass) and the
\* store as it left it.
validateConsistency(metricGroups, wr) ==
    IF wr.MetricFamilies = Nil THEN [err |-> "nil", wr |-> wr, ms |-> metricGroups]
    ELSE IF TypeConflict(metricGroups, wr.MetricFamilies[1])
    THEN [err |-> "TypeConflict", wr |-> wr, ms |-> metricGroups]
    ELSE IF TimestampsPresent(wr.MetricFamilies[1])
    THEN [err |-> "TimestampForbidden", wr |-> wr, ms |-> metricGroups]
    ELSE The({ExpensiveCheck(metricGroups, sanitized) : sanitized \in {Sanitized(wr)}})

----------------------------------------------------------------------------
(* The requests the handlers submit *)

\* The submissions of one run, and the slots of the write queue (the code's
\* writeQueueCapacity is 1000).
MaxWrites == 3
writeQueueCapacity == 2

\* make(chan error, 1) in handler.Push.
errChCapacity == 1

Metric(label, value) == [Label |-> label, TimestampMs |-> Nil, Value |-> value]
\* dto.Counter, dto.Gauge and dto.Untyped: the payload holding one number.
Sample(v) == [Value |-> v]
LabelPair(name, value) == [Name |-> name, Value |-> value]
MetricFamily(name, type, metrics) ==
    [Name |-> name, Help |-> "", Type |-> type, Metric |-> metrics]

\* What a request body parses to: a map from each family's name to the family.
FamiliesOf(fams) == [n \in {f.Name : f \in fams} |-> CHOOSE f \in fams : f.Name = n]

\* The grouping labels of the routes /job/x and /job/y.
GroupingLabels == {[n \in {JobLabel} |-> v] : v \in {ValX, ValY}}

\* Bodies with two families, and with foo as a gauge of two series.
TwoFamilies ==
    FamiliesOf({MetricFamily("foo", "COUNTER", <<Metric(<<>>, Sample(1))>>),
                MetricFamily("bar", "GAUGE", <<Metric(<<LabelPair(NameA, ValX)>>, Sample(1))>>)})
FooGauge ==
    FamiliesOf({MetricFamily("foo", "GAUGE",
                    <<Metric(<<>>, Sample(2)),
                      Metric(<<LabelPair(NameA, ValX)>>, Sample(2))>>)})

\* A body whose metric carries a timestamp.
WithTimestamp ==
    FamiliesOf({MetricFamily("foo", "COUNTER",
                    <<[Metric(<<>>, Sample(1)) EXCEPT !.TimestampMs = Some(0)]>>)})

\* A body whose two metrics differ only in the job label the producer gave.
SameSeriesTwice ==
    FamiliesOf({MetricFamily("foo", "COUNTER",
                    <<Metric(<<LabelPair(JobLabel, ValX)>>, Sample(1)),
                      Metric(<<LabelPair(JobLabel, ValY)>>, Sample(1))>>)})

Bodies == {TwoFamilies, FooGauge, WithTimestamp, SameSeriesTwice}

\* The bodies pushed while scrapes run.
ScrapeBodies == {TwoFamilies, FooGauge}

NoRequest ==
    [id |-> 0, Labels |-> <<>>, MetricFamilies |-> Nil, Replace |-> FALSE, Done |-> Nil]

----------------------------------------------------------------------------
(* The running gateway *)

\* The status codes the handlers answer with.
StatusOK == 200
StatusAccepted == 202
StatusBadRequest == 400
StatusInternalServerError == 500

VARIABLES
    skipConsistencyCheck, \* the flag --push.skip-consistency-check
    metricGroups,         \* ms.metricGroups
    lock,                 \* ms.lock: [writer, readers]
    writeQueue,           \* ms.writeQueue
    pc,                   \* where loop() stands
    wr,                   \* the request loop() works on
    err,                  \* validateConsistency's verdict on it
    todo,                 \* the families mergeGroups has still to range over
    done,                 \* the errCh channels: id -> [buf, closed, sent], sent
                          \* being what loop() has sent on it, and for which request
    waiting,              \* the checked handlers ranging over their errCh
    nSubmitted,           \* requests enqueued so far
    nReceived,            \* requests loop() has taken so far
    pcScrape,             \* where the scrape of GetMetricFamilies stands
    snapshot,             \* Nil or Some(its result)
    before,               \* the store as of the last release of the write lock
    panicked,             \* loop() died on a channel operation
    hasQueue,             \* ms.writeQueue != nil
    status,               \* the status of the response written last, 0 before any
    pcHealth,             \* where the call of Healthy stands
    healthy,              \* what Healthy returned last
    pcGroups,             \* where the caller of GetMetricGroups stands
    groups,               \* Nil or Some(what GetMetricGroups returned to it)
    call,                 \* the call of a function of utils: its name and arguments
    result                \* Nil or Some(what the call returned)

vars == <<skipConsistencyCheck, metricGroups, lock, writeQueue, pc, wr, err, todo,
          done, waiting, nSubmitted, nReceived, pcScrape, snapshot, before, panicked,
          hasQueue, status, pcHealth, healthy, pcGroups, groups, call, result>>

configVars == <<skipConsistencyCheck, hasQueue>>
healthVars == <<pcHealth, healthy>>
callerVars == <<pcGroups, groups>>
utilVars == <<call, result>>

storeVars == <<metricGroups, lock, before, todo>>
loopVars == <<pc, wr, err, nReceived>>
scrapeVars == <<pcScrape, snapshot>>

\* No function of utils has been called.
NoCall == [fn |-> "none"]

\* NewMetricStorage, and main's flag.
Init ==
    /\ skipConsistencyCheck \in BOOLEAN
    /\ metricGroups = <<>>
    /\ lock = [writer |-> FALSE, readers |-> 0]
    /\ writeQueue = <<>>
    /\ pc = "recv"
    /\ wr = NoRequest
    /\ err = "nil"
    /\ todo = {}
    /\ done = <<>>
    /\ waiting = {}
    /\ nSubmitted = 0
    /\ nReceived = 0
    /\ pcScrape = "idle"
    /\ snapshot = Nil
    /\ before = <<>>
    /\ panicked = FALSE
    /\ hasQueue = TRUE
    /\ status = 0
    /\ pcHealth = "idle"
    /\ healthy = "none"
    /\ pcGroups = "idle"
    /\ groups = Nil
    /\ call = NoCall
    /\ result = Nil

\* A channel nobody holds any more is gone: closed, and its handler returned.
Collect(chans, handlers) ==
    [id \in {i \in DOMAIN chans : ~chans[i].closed \/ i \in handlers} |-> chans[id]]

\* ms.writeQueue <- wr as it would be on a channel without a bound.
SubmitWriteRequest_Unbounded(request) ==
    /\ hasQueue
    /\ writeQueue' = Append(writeQueue, request)
    /\ nSubmitted' = nSubmitted + 1

\* ms.writeQueue <- wr: blocks while the queue is full, and for ever on the
\* nil queue of NewSimpleMetricStorage.
SubmitWriteRequest(request) ==
    /\ hasQueue
    /\ Len(writeQueue) < writeQueueCapacity
    /\ writeQueue' = Append(writeQueue, request)
    /\ nSubmitted' = nSubmitted + 1

\* handler.Push from the parsed body on: the request is submitted without
\* Done when the gateway skips the check, and answered 202, else with errCh,
\* which the handler then ranges over.
Push(labels, families, replace) ==
    /\ ~panicked
    /\ nSubmitted < MaxWrites
    /\ LET id == nSubmitted + 1
           request == [id |-> id, Labels |-> labels, MetricFamilies |-> Some(families),
                       Replace |-> replace,
                       Done |-> IF skipConsistencyCheck THEN Nil ELSE Some(id)]
       IN  /\ SubmitWriteRequest(request)
           /\ IF skipConsistencyCheck
              THEN /\ status' = StatusAccepted
                   /\ UNCHANGED <<done, waiting>>
              ELSE /\ done' = (id :> [buf |-> <<>>, closed |-> FALSE, sent |-> <<>>]) @@ done
                   /\ waiting' = waiting \cup {id}
                   /\ UNCHANGED status
    /\ UNCHANGED <<configVars, utilVars, healthVars, callerVars, storeVars, loopVars,
                   scrapeVars, panicked>>

\* handler.Delete from the labels on: a request without families and without
\* Done, answered 202.
Delete(labels) ==
    /\ ~panicked
    /\ nSubmitted < MaxWrites
    /\ SubmitWriteRequest([id |-> nSubmitted + 1, Labels |-> labels,
                           MetricFamilies |-> Nil, Replace |-> FALSE, Done |-> Nil])
    /\ status' = StatusAccepted
    /\ UNCHANGED <<configVars, utilVars, healthVars, callerVars, storeVars, loopVars,
                   scrapeVars, done, waiting, panicked>>

\* The range over errCh in handler.Push: a value received answers 400 and
\* ends the handler; the channel closed and empty ends it too, and no header
\* having been written, net/http answers 200.
RangeErrCh(id) ==
    /\ ~panicked
    /\ id \in waiting
    /\ id \in DOMAIN done
    /\ \/ /\ done[id].buf # <<>>
          /\ waiting' = waiting \ {id}
          /\ done' = Collect([done EXCEPT ![id].buf = Tail(@)], waiting')
          /\ status' = StatusBadRequest
       \/ /\ done[id].buf = <<>>
          /\ done[id].closed
          /\ waiting' = waiting \ {id}
          /\ done' = Collect(done, waiting')
          /\ status' = StatusOK
    /\ UNCHANGED <<configVars, utilVars, healthVars, callerVars, storeVars, loopVars,
                   scrapeVars, writeQueue, nSubmitted, panicked>>

\* A queue that hands out the request enqueued last.
Dequeue_Last(queue) ==
    [wr |-> queue[Len(queue)], rest |-> SubSeq(queue, 1, Len(queue) - 1)]

\* wr := <-ms.writeQueue
Dequeue(queue) == [wr |-> Head(queue), rest |-> Tail(queue)]

\* A loop() that takes an accepted request for applied.
Validated_SkipApply(v) ==
    /\ wr' = v.wr
    /\ metricGroups' = v.ms
    /\ err' = v.err
    /\ pc' = IF v.err = "nil" THEN "close" ELSE "send"

\* loop(): the branch on the validator's verdict v.
Validated(v) ==
    /\ wr' = v.wr
    /\ metricGroups' = v.ms
    /\ err' = v.err
    /\ pc' = IF v.err = "nil" THEN "process" ELSE "send"

\* loop(): take the next request and validate it.  The deep check reads the
\* store through ms.GetMetricGroups(), under the read lock, which it gets
\* only while no writer holds the lock; the step stands for the whole turn
\* up to the verdict and is taken when the read lock is granted.
Receive ==
    /\ ~panicked
    /\ pc = "recv"
    /\ writeQueue # <<>>
    /\ TakesSnapshot(metricGroups, Dequeue(writeQueue).wr) => ~lock.writer
    /\ writeQueue' = Dequeue(writeQueue).rest
    /\ \E v \in {validateConsistency(metricGroups, Dequeue(writeQueue).wr)} :
           Validated(v)
    /\ nReceived' = nReceived + 1
    /\ UNCHANGED <<configVars, utilVars, healthVars, callerVars, lock, before, todo,
                   scrapeVars, done, waiting, nSubmitted, panicked, status>>

\* A writer lock that does not wait for the readers to leave.
Lock_NoWaitForReaders ==
    /\ ~panicked
    /\ pc = "process"
    /\ ~lock.writer
    /\ lock' = [lock EXCEPT !.writer = TRUE]
    /\ pc' = "apply"
    /\ todo' = IF /\ wr.MetricFamilies # Nil
                  /\ GroupingKeyFor(wr.Labels) \in DOMAIN metricGroups
                  /\ ~wr.Replace
               THEN DOMAIN wr.MetricFamilies[1]
               ELSE {}
    /\ UNCHANGED <<configVars, utilVars, healthVars, callerVars, metricGroups, before,
                   writeQueue, wr, err, nReceived, scrapeVars, done, waiting,
                   nSubmitted, panicked, status>>

\* processWriteRequest: ms.lock.Lock()
Lock ==
    /\ ~panicked
    /\ pc = "process"
    /\ ~lock.writer /\ lock.readers = 0
    /\ lock' = [lock EXCEPT !.writer = TRUE]
    /\ pc' = "apply"
    /\ todo' = IF /\ wr.MetricFamilies # Nil
                  /\ GroupingKeyFor(wr.Labels) \in DOMAIN metricGroups
                  /\ ~wr.Replace
               THEN DOMAIN wr.MetricFamilies[1]
               ELSE {}
    /\ UNCHANGED <<configVars, utilVars, healthVars, callerVars, metricGroups, before,
                   writeQueue, wr, err, nReceived, scrapeVars, done, waiting,
                   nSubmitted, panicked, status>>

\* One turn of mergeGroups on the stored group, r being what it returned.
ApplyTurn(groupingKey, key, r) ==
    /\ metricGroups' = [metricGroups EXCEPT ![groupingKey].MetricFamilies = r.g1]
    /\ wr' = [wr EXCEPT !.MetricFamilies = Some(r.g2)]
    /\ todo' = todo \ {key}
    /\ pc' = IF todo = {key} THEN "unlock" ELSE "apply"

ApplyAt(groupingKey) ==
    IF \/ wr.MetricFamilies = Nil
       \/ groupingKey \notin DOMAIN metricGroups
       \/ wr.Replace
    THEN /\ metricGroups' = processWriteRequestAt(metricGroups, wr, groupingKey).ms
         /\ pc' = "unlock"
         /\ UNCHANGED <<wr, todo>>
    ELSE IF todo = {}
    THEN /\ pc' = "unlock"
         /\ UNCHANGED <<metricGroups, wr, todo>>
    ELSE \E key \in todo :
             \E r \in {mergeGroupsStep(metricGroups[groupingKey].MetricFamilies,
                                       wr.MetricFamilies[1], key)} :
                 ApplyTurn(groupingKey, key, r)

\* processWriteRequest under the lock: the delete, the store of a new or
\* replacing group, or one turn of mergeGroups.
Apply ==
    /\ ~panicked
    /\ pc = "apply"
    /\ \E groupingKey \in {GroupingKeyFor(wr.Labels)} : ApplyAt(groupingKey)
    /\ UNCHANGED <<configVars, utilVars, healthVars, callerVars, lock, before,
                   writeQueue, err, nReceived, scrapeVars, done, waiting, nSubmitted,
                   panicked, status>>

\* A loop() that sends the verdict on Done after a successful application
\* too: from the unlock on to the send.
Unlock_ThenSend ==
    /\ ~panicked
    /\ pc = "unlock"
    /\ lock' = [lock EXCEPT !.writer = FALSE]
    /\ before' = metricGroups
    /\ pc' = "send"
    /\ UNCHANGED <<configVars, utilVars, healthVars, callerVars, metricGroups, todo,
                   writeQueue, wr, err, nReceived, scrapeVars, done, waiting,
                   nSubmitted, panicked, status>>

\* A processWriteRequest that returns without unlocking.
Unlock_Forgotten ==
    /\ ~panicked
    /\ pc = "unlock"
    /\ before' = metricGroups
    /\ pc' = "close"
    /\ UNCHANGED <<configVars, utilVars, healthVars, callerVars, metricGroups, lock,
                   todo, writeQueue, wr, err, nReceived, scrapeVars, done, waiting,
                   nSubmitted, panicked, status>>

\* processWriteRequest: the deferred ms.lock.Unlock()
Unlock ==
    /\ ~panicked
    /\ pc = "unlock"
    /\ lock' = [lock EXCEPT !.writer = FALSE]
    /\ before' = metricGroups
    /\ pc' = "close"
    /\ UNCHANGED <<configVars, utilVars, healthVars, callerVars, metricGroups, todo,
                   writeQueue, wr, err, nReceived, scrapeVars, done, waiting,
                   nSubmitted, panicked, status>>

\* loop(): wr.Done <- err.  A send on a nil channel blocks forever; a send on
\* a closed channel panics; a send on a full channel waits for a receiver.
Send ==
    /\ ~panicked
    /\ pc = "send"
    /\ wr.Done # Nil
    /\ LET id == wr.Done[1]
       IN  IF id \notin DOMAIN done \/ done[id].closed
           THEN /\ panicked' = TRUE
                /\ UNCHANGED <<done, pc>>
           ELSE /\ Len(done[id].buf) < errChCapacity
                /\ done' = [done EXCEPT
                               ![id].buf = Append(@, err),
                               ![id].sent = Append(@, [err |-> err, for |-> wr.id])]
                /\ pc' = "close"
                /\ UNCHANGED panicked
    /\ UNCHANGED <<configVars, utilVars, healthVars, callerVars, storeVars, writeQueue,
                   wr, err, nReceived, scrapeVars, waiting, nSubmitted, status>>

\* A loop() that goes round again without closing Done.
Close_Forgotten ==
    /\ ~panicked
    /\ pc = "close"
    /\ pc' = "recv"
    /\ wr' = NoRequest
    /\ err' = "nil"
    /\ UNCHANGED <<configVars, utilVars, healthVars, callerVars, storeVars, writeQueue,
                   nReceived, scrapeVars, waiting, nSubmitted, done, panicked, status>>

\* loop(): if wr.Done != nil { close(wr.Done) }, and round again.
Close ==
    /\ ~panicked
    /\ pc = "close"
    /\ IF wr.Done = Nil
       THEN UNCHANGED <<done, panicked>>
       ELSE LET id == wr.Done[1]
            IN  IF id \notin DOMAIN done \/ done[id].closed
                THEN /\ panicked' = TRUE
                     /\ UNCHANGED done
                ELSE /\ done' = Collect([done EXCEPT ![id].closed = TRUE], waiting)
                     /\ UNCHANGED panicked
    /\ pc' = "recv"
    /\ wr' = NoRequest
    /\ err' = "nil"
    /\ UNCHANGED <<configVars, utilVars, healthVars, callerVars, storeVars, writeQueue,
                   nReceived, scrapeVars, waiting, nSubmitted, status>>

\* GetMetricFamilies: ms.lock.RLock()
ScrapeRLock ==
    /\ ~panicked
    /\ pcScrape = "idle"
    /\ ~lock.writer
    /\ lock' = [lock EXCEPT !.readers = @ + 1]
    /\ pcScrape' = "copy"
    /\ UNCHANGED <<configVars, utilVars, healthVars, callerVars, metricGroups, before,
                   todo, loopVars, writeQueue, snapshot, done, waiting, nSubmitted,
                   panicked, status>>

\* GetMetricFamilies: the copies, and the deferred ms.lock.RUnlock()
ScrapeCopy ==
    /\ ~panicked
    /\ pcScrape = "copy"
    /\ snapshot' = Some(GetMetricFamilies(metricGroups))
    /\ lock' = [lock EXCEPT !.readers = @ - 1]
    /\ pcScrape' = "return"
    /\ UNCHANGED <<configVars, utilVars, healthVars, callerVars, metricGroups, before,
                   todo, loopVars, writeQueue, done, waiting, nSubmitted, panicked,
                   status>>

\* The scrape is served and its slice dropped.
ScrapeReturn ==
    /\ ~panicked
    /\ pcScrape = "return"
    /\ snapshot' = Nil
    /\ pcScrape' = "idle"
    /\ UNCHANGED <<configVars, utilVars, healthVars, callerVars, storeVars, loopVars,
                   writeQueue, done, waiting, nSubmitted, panicked, status>>

\* Healthy without the test for a storage that has no queue.
Healthy_NoNilTest(queueNotNil, length, capacity) ==
    IF length >= capacity THEN "write queue is full" ELSE "nil"

\* What Healthy returns: ms.writeQueue != nil && len(...) >= cap(...)
Healthy(queueNotNil, length, capacity) ==
    IF queueNotNil /\ length >= capacity THEN "write queue is full" ELSE "nil"

\* cap(ms.writeQueue), 0 for a nil channel.
Cap == IF hasQueue THEN writeQueueCapacity ELSE 0

\* Healthy: ms.lock.Lock()
HealthyLock ==
    /\ ~panicked
    /\ pcHealth = "idle"
    /\ ~lock.writer /\ lock.readers = 0
    /\ lock' = [lock EXCEPT !.writer = TRUE]
    /\ pcHealth' = "check"
    /\ UNCHANGED <<configVars, utilVars, healthy, metricGroups, before, todo, loopVars,
                   scrapeVars, writeQueue, done, waiting, nSubmitted, panicked, status,
                   callerVars>>

\* Healthy: the test of the queue and the deferred ms.lock.Unlock(); then
\* handler.Health answers 200 or 500.
HealthyReturn ==
    /\ ~panicked
    /\ pcHealth = "check"
    /\ healthy' = Healthy(hasQueue, Len(writeQueue), Cap)
    /\ lock' = [lock EXCEPT !.writer = FALSE]
    /\ pcHealth' = "idle"
    /\ status' = IF healthy' = "nil" THEN StatusOK ELSE StatusInternalServerError
    /\ UNCHANGED <<configVars, utilVars, metricGroups, before, todo, loopVars,
                   scrapeVars, writeQueue, done, waiting, nSubmitted, panicked,
                   callerVars>>

\* strings.TrimRight(s, "="): the byte 61 is '='.
RECURSIVE TrimRightPadding(_)
TrimRightPadding(s) ==
    IF s # <<>> /\ s[Len(s)] = 61 THEN TrimRightPadding(SubSeq(s, 1, Len(s) - 1))
    ELSE s

\* The value of byte c in the URL-safe alphabet A-Z a-z 0-9 - _ of RFC 4648,
\* -1 if it is not in the alphabet.
Sextet(c) ==
    IF c >= 65 /\ c <= 90 THEN c - 65
    ELSE IF c >= 97 /\ c <= 122 THEN c - 71
    ELSE IF c >= 48 /\ c <= 57 THEN c + 4
    ELSE IF c = 45 THEN 62
    ELSE IF c = 95 THEN 63
    ELSE -1

\* The bytes of one quantum of two to four characters: 24 bits, of which the
\* whole bytes the characters fill are kept and the trailing bits dropped.
DecodeQuantum(q) ==
    SubSeq(The({<<n \div 65536, (n \div 256) % 256, n % 256>> :
                   n \in {Sextet(q[1]) * 262144 + Sextet(q[2]) * 4096
                          + (IF Len(q) >= 3 THEN Sextet(q[3]) * 64 ELSE 0)
                          + (IF Len(q) = 4 THEN Sextet(q[4]) ELSE 0)}}),
           1, Len(q) - 1)

\* base64.RawURLEncoding.DecodeString on a string of legal length and
\* characters.
RECURSIVE DecodeString(_)
DecodeString(s) ==
    IF s = <<>> THEN <<>>
    ELSE IF Len(s) <= 4 THEN DecodeQuantum(s)
    ELSE DecodeQuantum(SubSeq(s, 1, 4)) \o DecodeString(SubSeq(s, 5, Len(s)))

\* The decoding of what TrimRight left.  On an error the code's callers use
\* the value in their message only.
DecodeTrimmed(s) ==
    IF Len(s) % 4 # 1 /\ \A i \in DOMAIN s : Sextet(s[i]) >= 0
    THEN [value |-> DecodeString(s), err |-> "nil"]
    ELSE [value |-> <<>>, err |-> "illegal base64 data"]

\* utils.DecodeBase64
DecodeBase64(s) == The({DecodeTrimmed(t) : t \in {TrimRightPadding(s)}})

\* '/', between the components of a label path.
Slash == 47

\* handler.Base64JobSuffix, "@base64", which main hands to the handlers.
Base64JobSuffix == <<64, 98, 97, 115, 101, 54, 52>>

\* model.ReservedLabelPrefix, "__".
ReservedLabelPrefix == <<95, 95>>

\* strings.HasPrefix, strings.HasSuffix and strings.TrimSuffix.
HasPrefix(s, prefix) ==
    Len(prefix) <= Len(s) /\ SubSeq(s, 1, Len(prefix)) = prefix

HasSuffix(s, suffix) ==
    Len(suffix) <= Len(s) /\ SubSeq(s, Len(s) - Len(suffix) + 1, Len(s)) = suffix

TrimSuffix(s, suffix) ==
    IF HasSuffix(s, suffix) THEN SubSeq(s, 1, Len(s) - Len(suffix)) ELSE s

\* strings.Split(s, sep) for a separator of one byte: the pieces between the
\* separators, one piece more than there are separators.
RECURSIVE Split(_, _)
Split(s, sep) ==
    IF \A i \in DOMAIN s : s[i] # sep THEN <<s>>
    ELSE The({<<SubSeq(s, 1, i - 1)>> \o Split(SubSeq(s, i + 1, Len(s)), sep) :
                 i \in {i \in DOMAIN s :
                           s[i] = sep /\ \A j \in 1..(i - 1) : s[j] # sep}})

\* model.LabelNameRE, ^[a-zA-Z_][a-zA-Z0-9_]*$
LabelNameRE(s) ==
    /\ s # <<>>
    /\ \A i \in DOMAIN s :
           \/ s[i] >= 97 /\ s[i] <= 122
           \/ s[i] >= 65 /\ s[i] <= 90
           \/ s[i] = 95
           \/ i > 1 /\ s[i] >= 48 /\ s[i] <= 57

\* What SplitLabels returns: the map (Nil for a nil map) and the error.
SplitResult(labelMap, error) == [labels |-> labelMap, err |-> error]

\* The loop of SplitLabels as it would be if it stored the value of a name
\* with the suffix as it stands in the path.
RECURSIVE SplitLabelsLoop_Undecoded(_, _, _, _)
SplitLabelsLoop_Undecoded(components, i, labels, base64JobSuffix) ==
    IF i > Len(components) - 1 THEN SplitResult(Some(labels), "nil")
    ELSE LET name == components[i]
             value == components[i + 1]
             trimmedName == TrimSuffix(name, base64JobSuffix)
         IN  IF ~LabelNameRE(trimmedName) \/ HasPrefix(trimmedName, ReservedLabelPrefix)
             THEN SplitResult(Nil, "improper label name")
             ELSE SplitLabelsLoop_Undecoded(components, i + 2,
                                            (trimmedName :> value) @@ labels,
                                            base64JobSuffix)

\* The loop of SplitLabels over the pairs of components, from component i on;
\* labels is the map result as filled so far.
RECURSIVE SplitLabelsLoop(_, _, _, _)
SplitLabelsLoop(components, i, labels, base64JobSuffix) ==
    IF i > Len(components) - 1 THEN SplitResult(Some(labels), "nil")
    ELSE LET name == components[i]
             value == components[i + 1]
             trimmedName == TrimSuffix(name, base64JobSuffix)
         IN  IF ~LabelNameRE(trimmedName) \/ HasPrefix(trimmedName, ReservedLabelPrefix)
             THEN SplitResult(Nil, "improper label name")
             ELSE IF name = trimmedName
             THEN SplitLabelsLoop(components, i + 2, (name :> value) @@ labels,
                                  base64JobSuffix)
             ELSE IF DecodeBase64(value).err # "nil"
             THEN SplitResult(Nil, "invalid base64 encoding")
             ELSE SplitLabelsLoop(components, i + 2,
                                  (trimmedName :> DecodeBase64(value).value) @@ labels,
                                  base64JobSuffix)

\* The components of a label path: one leading '/' dropped, the rest split.
Components(labels) ==
    Split(IF HasPrefix(labels, <<Slash>>) THEN Tail(labels) ELSE labels, Slash)

\* SplitLabels as it would be without the test of the number of components:
\* a last component without a value is left out.
SplitLabels_NoOddTest(labels, base64JobSuffix) ==
    IF Len(labels) <= 1 THEN SplitResult(Some(<<>>), "nil")
    ELSE SplitLabelsLoop(Components(labels), 1, <<>>, base64JobSuffix)

\* utils.SplitLabels
SplitLabels(labels, base64JobSuffix) ==
    IF Len(labels) <= 1 THEN SplitResult(Some(<<>>), "nil")
    ELSE IF Len(Components(labels)) % 2 # 0
    THEN SplitResult(Nil, "odd number of components")
    ELSE SplitLabelsLoop(Components(labels), 1, <<>>, base64JobSuffix)

\* handler.Push and handler.Delete up to the test of the job: job is the
\* route's parameter.  The job and err that `if job, err := DecodeBase64(job)`
\* declares live in that if statement only: after it, job is the parameter
\* again.
JobOfRoute(base64, job) ==
    IF base64 /\ DecodeBase64(job).err # "nil" THEN [status |-> StatusBadRequest, job |-> job]
    ELSE IF job = <<>> THEN [status |-> StatusBadRequest, job |-> job]
    ELSE [status |-> 0, job |-> job]

\* The handler answers 400 and returns.
BadRequest ==
    /\ ~panicked
    /\ status' = StatusBadRequest
    /\ UNCHANGED <<configVars, utilVars, healthVars, callerVars, storeVars, loopVars,
                   scrapeVars, writeQueue, done, waiting, nSubmitted, panicked>>

\* handler.Push on a route without labels: labels is the empty map SplitLabels
\* returns, with labels["job"] = job.
PushOn(base64, job, families, replace) ==
    IF JobOfRoute(base64, job).status = StatusBadRequest
    THEN BadRequest
    ELSE Push(JobLabel :> JobOfRoute(base64, job).job, families, replace)

\* handler.Delete on a route without labels.
DeleteOn(base64, job) ==
    IF JobOfRoute(base64, job).status = StatusBadRequest
    THEN BadRequest
    ELSE Delete(JobLabel :> JobOfRoute(base64, job).job)

\* GetMetricGroups called from outside the storage: ms.lock.RLock()
GroupsRLock ==
    /\ ~panicked
    /\ pcGroups = "idle"
    /\ ~lock.writer
    /\ lock' = [lock EXCEPT !.readers = @ + 1]
    /\ pcGroups' = "copy"
    /\ UNCHANGED <<configVars, utilVars, healthVars, groups, metricGroups, before, todo,
                   loopVars, scrapeVars, writeQueue, done, waiting, nSubmitted,
                   panicked, status>>

\* GetMetricGroups: the copy, and the deferred ms.lock.RUnlock().  Each
\* family is cloned; `Labels: g.Labels` puts the group's own map into the
\* copy, so groups[1][k].Labels is the map object of metricGroups[k] and is
\* kept equal to it below.
GroupsCopy ==
    /\ ~panicked
    /\ pcGroups = "copy"
    /\ groups' = Some(GetMetricGroups(metricGroups))
    /\ lock' = [lock EXCEPT !.readers = @ - 1]
    /\ pcGroups' = "held"
    /\ UNCHANGED <<configVars, utilVars, healthVars, metricGroups, before, todo,
                   loopVars, scrapeVars, writeQueue, done, waiting, nSubmitted,
                   panicked, status>>

\* The caller assigns to a label of a group it was given:
\* groups[k].Labels[name] = value.  The map is the store's.
SetLabel(k, name, value) ==
    /\ ~panicked
    /\ pcGroups = "held"
    /\ k \in DOMAIN groups[1]
    /\ k \in DOMAIN metricGroups
    /\ groups' = Some([groups[1] EXCEPT ![k].Labels = (name :> value) @@ @])
    /\ metricGroups' = [metricGroups EXCEPT ![k].Labels = (name :> value) @@ @]
    /\ UNCHANGED <<configVars, utilVars, healthVars, pcGroups, lock, before, todo,
                   loopVars, scrapeVars, writeQueue, done, waiting, nSubmitted,
                   panicked, status>>

\* The caller assigns to a family it was given: *groups[k].MetricFamilies[n].Name
\* = name.  The family is a clone.
SetName(k, n, name) ==
    /\ ~panicked
    /\ pcGroups = "held"
    /\ k \in DOMAIN groups[1]
    /\ n \in DOMAIN groups[1][k].MetricFamilies
    /\ groups' = Some([groups[1] EXCEPT ![k].MetricFamilies[n].Name = name])
    /\ UNCHANGED <<configVars, utilVars, healthVars, pcGroups, storeVars, loopVars,
                   scrapeVars, writeQueue, done, waiting, nSubmitted, panicked, status>>

\* The caller drops what it was given.
GroupsDrop ==
    /\ ~panicked
    /\ pcGroups = "held"
    /\ pcGroups' = "idle"
    /\ groups' = Nil
    /\ UNCHANGED <<configVars, utilVars, healthVars, storeVars, loopVars, scrapeVars,
                   writeQueue, done, waiting, nSubmitted, panicked, status>>

Worker == Receive \/ Lock \/ Apply \/ Unlock \/ Send \/ Close

Scrape == ScrapeRLock \/ ScrapeCopy \/ ScrapeReturn

\* The write pipeline: the handlers and loop().
Next ==
    \/ \E labels \in GroupingLabels, families \in Bodies, replace \in BOOLEAN :
           Push(labels, families, replace)
    \/ \E labels \in GroupingLabels : Delete(labels)
    \/ \E id \in waiting : RangeErrCh(id)
    \/ Worker

Spec == Init /\ [][Next]_vars

\* The write pipeline with scrapes running beside it.
ScrapeNext ==
    \/ \E labels \in GroupingLabels, families \in ScrapeBodies, replace \in BOOLEAN :
           Push(labels, families, replace)
    \/ \E labels \in GroupingLabels : Delete(labels)
    \/ \E id \in waiting : RangeErrCh(id)
    \/ Worker
    \/ Scrape

ScrapeSpec == Init /\ [][ScrapeNext]_vars

\* NewMetricStorage or NewSimpleMetricStorage: the latter has no queue and
\* starts no loop().
HealthInit ==
    /\ skipConsistencyCheck \in BOOLEAN
    /\ hasQueue \in BOOLEAN
    /\ metricGroups = <<>>
    /\ lock = [writer |-> FALSE, readers |-> 0]
    /\ writeQueue = <<>>
    /\ pc = "recv"
    /\ wr = NoRequest
    /\ err = "nil"
    /\ todo = {}
    /\ done = <<>>
    /\ waiting = {}
    /\ nSubmitted = 0
    /\ nReceived = 0
    /\ pcScrape = "idle"
    /\ snapshot = Nil
    /\ before = <<>>
    /\ panicked = FALSE
    /\ status = 0
    /\ pcHealth = "idle"
    /\ healthy = "none"
    /\ pcGroups = "idle"
    /\ groups = Nil
    /\ call = NoCall
    /\ result = Nil

Health == HealthyLock \/ HealthyReturn

\* The write pipeline with the health probe beside it.
HealthNext ==
    \/ \E labels \in GroupingLabels, families \in ScrapeBodies, replace \in BOOLEAN :
           Push(labels, families, replace)
    \/ \E labels \in GroupingLabels : Delete(labels)
    \/ \E id \in waiting : RangeErrCh(id)
    \/ Worker
    \/ Health

HealthSpec == HealthInit /\ [][HealthNext]_vars

\* The job segments the clients put in the URL: eA (x encoded), e (not an
\* encoding) and == (padding only, the encoding of the empty string).
JobSegments == {<<101, 65>>, <<101>>, <<61, 61>>}

\* The job segments used on a route: every one with @base64, eA as it stands
\* without.
JobsOn(base64) == IF base64 THEN JobSegments ELSE {<<101, 65>>}

\* The bodies pushed on these routes: one that is accepted, one that is not.
RouteBodies == {TwoFamilies, WithTimestamp}

\* The routes main registers, with and without the suffix @base64, for POST,
\* PUT and DELETE.
RouteNext ==
    \/ \E base64 \in BOOLEAN, families \in RouteBodies, replace \in BOOLEAN :
           \E job \in JobsOn(base64) : PushOn(base64, job, families, replace)
    \/ \E base64 \in BOOLEAN : \E job \in JobsOn(base64) : DeleteOn(base64, job)
    \/ \E id \in waiting : RangeErrCh(id)
    \/ Worker

RouteSpec == Init /\ [][RouteNext]_vars

Caller ==
    \/ GroupsRLock
    \/ GroupsCopy
    \/ \E k \in DOMAIN metricGroups, value \in {ValX, ValY} : SetLabel(k, JobLabel, value)
    \/ \E k \in DOMAIN metricGroups, n \in {"foo", "bar"} : SetName(k, n, "test1")
    \/ GroupsDrop

\* The write pipeline under POST requests only, with a caller of
\* GetMetricGroups beside it.  Without PUT and DELETE a group, once made,
\* stays the same object with the same Labels map: mergeGroups works on its
\* families only.
SnapshotNext ==
    \/ \E labels \in GroupingLabels, families \in ScrapeBodies :
           Push(labels, families, FALSE)
    \/ \E id \in waiting : RangeErrCh(id)
    \/ Worker
    \/ Caller

SnapshotSpec == Init /\ [][SnapshotNext]_vars

\* The Go scheduler runs loop() whenever it can take a step.
FairSpec == Spec /\ WF_vars(Worker)

----------------------------------------------------------------------------
(* Two writes waiting when loop() starts *)

\* The values a pushed sample takes.
MaxValue == 2

Bucket(upperBound, cumulativeCount) ==
    [UpperBound |-> upperBound, CumulativeCount |-> cumulativeCount]
Histogram(buckets) ==
    [SampleCount |-> buckets[Len(buckets)].CumulativeCount,
     SampleSum |-> Len(buckets) + buckets[1].CumulativeCount,
     Bucket |-> buckets]
Summary(v) ==
    [SampleCount |-> v, SampleSum |-> v + 1, Quantile |-> <<[Quantile |-> 1, Value |-> v]>>]

\* Histograms over the upper bounds 1 and 2: one of them or both, in
\* ascending order with non-decreasing cumulative counts.
BucketLists ==
    UNION {{<<Bucket(1, v)>>, <<Bucket(2, v)>>, <<Bucket(1, v), Bucket(2, v + 1)>>} :
              v \in 1..MaxValue}

\* The payloads of a metric of type mt.
PayloadsOf(mt) ==
    CASE mt \in {"COUNTER", "GAUGE", "UNTYPED"} -> {Sample(v) : v \in 1..MaxValue}
      [] mt = "SUMMARY" -> {Summary(v) : v \in 1..MaxValue}
      [] mt = "HISTOGRAM" -> {Histogram(b) : b \in BucketLists}

\* The label sets a producer gives a metric of type mt.
ProducerLabels(mt) ==
    IF mt \in {"COUNTER", "GAUGE"} THEN {<<>>, <<LabelPair(NameA, ValX)>>} ELSE {<<>>}

\* Bodies of one family with one metric: foo of every type, bar as a counter.
PairBodies ==
    UNION {{FamiliesOf({MetricFamily("foo", mt, <<Metric(l, p)>>)}) :
               l \in ProducerLabels(mt), p \in PayloadsOf(mt)} :
              mt \in {"COUNTER", "GAUGE", "UNTYPED", "SUMMARY", "HISTOGRAM"}}
    \cup {FamiliesOf({MetricFamily("bar", "COUNTER", <<Metric(<<>>, Sample(v))>>)}) :
             v \in 1..MaxValue}

\* What Push and Delete submit, but for id and Done.
PairRequests ==
    {[Labels |-> labels, MetricFamilies |-> Some(families), Replace |-> replace] :
        labels \in GroupingLabels, families \in PairBodies, replace \in BOOLEAN}
    \cup {[Labels |-> labels, MetricFamilies |-> Nil, Replace |-> FALSE] :
             labels \in GroupingLabels}

\* The request as the handler submits it as the id-th: a push carries errCh
\* unless the gateway skips the check, a delete never does.
Submitted(r, id, unchecked) ==
    [id |-> id, Labels |-> r.Labels, MetricFamilies |-> r.MetricFamilies,
     Replace |-> r.Replace,
     Done |-> IF unchecked \/ r.MetricFamilies = Nil THEN Nil ELSE Some(id)]

\* The channels of the submitted requests that carry one.
ErrChs(queue) ==
    [id \in {queue[i].id : i \in {j \in DOMAIN queue : queue[j].Done # Nil}} |->
        [buf |-> <<>>, closed |-> FALSE, sent |-> <<>>]]

\* The gateway after two handlers have submitted and before loop() has taken
\* a request.
PairInit ==
    /\ skipConsistencyCheck \in BOOLEAN
    /\ metricGroups = <<>>
    /\ lock = [writer |-> FALSE, readers |-> 0]
    /\ writeQueue \in {<<Submitted(r1, 1, skipConsistencyCheck),
                         Submitted(r2, 2, skipConsistencyCheck)>> :
                          r1, r2 \in PairRequests}
    /\ pc = "recv"
    /\ wr = NoRequest
    /\ err = "nil"
    /\ todo = {}
    /\ done = ErrChs(writeQueue)
    /\ waiting = DOMAIN done
    /\ nSubmitted = 2
    /\ nReceived = 0
    /\ pcScrape = "idle"
    /\ snapshot = Nil
    /\ before = <<>>
    /\ panicked = FALSE
    /\ hasQueue = TRUE
    /\ status = IF \A i \in DOMAIN writeQueue : writeQueue[i].Done # Nil
               THEN 0 ELSE StatusAccepted
    /\ pcHealth = "idle"
    /\ healthy = "none"
    /\ pcGroups = "idle"
    /\ groups = Nil
    /\ call = NoCall
    /\ result = Nil

PairNext ==
    \/ \E id \in waiting : RangeErrCh(id)
    \/ Worker

PairSpec == PairInit /\ [][PairNext]_vars

----------------------------------------------------------------------------
(* Calls of the functions of utils *)
(* call is [fn, ...]: the function called and its arguments; result is Nil *)
(* until the function has returned, then Some(what it returned).           *)

\* Label paths hold at most MaxPairs name/value pairs; a metric handed to
\* SanitizeLabels has at most MaxLabelPairs label pairs.
MaxPairs == 2
MaxLabelPairs == 3

\* The sequences over S of length n at most.
RECURSIVE SeqsUpTo(_, _)
SeqsUpTo(S, n) ==
    IF n = 0 THEN {<<>>}
    ELSE The({shorter \cup {Append(s, x) : s \in {t \in shorter : Len(t) = n - 1},
                                           x \in S} :
                 shorter \in {SeqsUpTo(S, n - 1)}})

\* Names of a label path: "k", "m", "k@base64", "__k@base64" and "".
PathNames ==
    {<<107>>, <<109>>, <<107>> \o Base64JobSuffix,
     ReservedLabelPrefix \o <<107>> \o Base64JobSuffix, <<>>}

\* Values of a label path: "", "x", "eA" (the base64 of "x") and "_23_" (the
\* base64 of the bytes 255, 'm', 255).
PathValues == {<<>>, <<120>>, <<101, 65>>, <<95, 50, 51, 95>>}

\* strings.Join(components, "/")
RECURSIVE JoinPath(_)
JoinPath(components) ==
    IF components = <<>> THEN <<>>
    ELSE IF Len(components) = 1 THEN components[1]
    ELSE components[1] \o <<Slash>> \o JoinPath(Tail(components))

\* The components of a sequence of pairs.
RECURSIVE PairComponents(_)
PairComponents(pairs) ==
    IF pairs = <<>> THEN <<>> ELSE Head(pairs) \o PairComponents(Tail(pairs))

\* The label paths of the calls: up to MaxPairs pairs, with or without a
\* last name that has no value, with or without the leading '/'.
LabelPaths ==
    {lead \o JoinPath(PairComponents(pairs) \o last) :
        lead \in {<<>>, <<Slash>>},
        pairs \in SeqsUpTo({<<n, v>> : n \in PathNames, v \in PathValues}, MaxPairs),
        last \in {<<>>, <<(<<107>>)>>}}

\* The grouping labels handler.Push builds on a route with labels: what
\* SplitLabels made of the path, with labels["job"] = job.
PushLabels ==
    {(JobLabel :> ValX) @@ r.labels[1] :
        r \in {s \in {SplitLabels(path, Base64JobSuffix) : path \in LabelPaths} :
                  s.err = "nil"}}

\* The label pairs of the metrics handed to SanitizeLabels.
MetricLabels ==
    SeqsUpTo({LabelPair(JobLabel, ValX), LabelPair(JobLabel, ValY),
              LabelPair(NameA, ValX), LabelPair(InstanceLabel, ValX)},
             MaxLabelPairs)

\* The grouping labels handed to SanitizeLabels.
SanitizeGroupingLabels ==
    {<<>>, JobLabel :> ValX, (JobLabel :> ValY) @@ (NameA :> ValY),
     (JobLabel :> ValX) @@ (InstanceLabel :> ValY)}

\* The calls of SanitizeLabels: on a family of two metrics.
SanitizeLabelsCalls ==
    {[fn |-> "SanitizeLabels",
      mf |-> MetricFamily("foo", "GAUGE",
                          <<Metric(label, Sample(1)),
                            Metric(<<LabelPair(NameA, ValY)>>, Sample(2))>>),
      groupingLabels |-> groupingLabels, again |-> FALSE] :
        label \in MetricLabels, groupingLabels \in SanitizeGroupingLabels}

\* The calls of GroupingKeyFor: on nil and on the labels of a push.
GroupingKeyForCalls ==
    {[fn |-> "GroupingKeyFor", labels |-> labels] : labels \in PushLabels \cup {<<>>}}

\* The calls of GroupingKeyForLabelPair: on the label pairs of a metric.
GroupingKeyForLabelPairCalls ==
    {[fn |-> "GroupingKeyForLabelPair", labels |-> labels] : labels \in MetricLabels}

\* The calls of SplitLabels: without the suffix and with it.
SplitLabelsCalls ==
    {[fn |-> "SplitLabels", labels |-> path, base64JobSuffix |-> suffix] :
        path \in LabelPaths, suffix \in {<<>>, Base64JobSuffix}}

gatewayVars ==
    <<configVars, healthVars, callerVars, storeVars, loopVars, scrapeVars, writeQueue,
      done, waiting, nSubmitted, panicked, status>>

\* SanitizeLabels(mf, groupingLabels) returns; it has changed mf in place.
SanitizeLabelsCall ==
    /\ call.fn = "SanitizeLabels"
    /\ result = Nil
    /\ result' = Some(SanitizeLabels(call.mf, call.groupingLabels))
    /\ UNCHANGED <<call, gatewayVars>>

\* SanitizeLabels called once more, on the family the first call left.
SanitizeLabelsAgain ==
    /\ call.fn = "SanitizeLabels"
    /\ result # Nil
    /\ ~call.again
    /\ call' = [call EXCEPT !.again = TRUE]
    /\ result' = Some(SanitizeLabels(result[1], call.groupingLabels))
    /\ UNCHANGED gatewayVars

GroupingKeyForCall ==
    /\ call.fn = "GroupingKeyFor"
    /\ result = Nil
    /\ result' = Some(GroupingKeyFor(call.labels))
    /\ UNCHANGED <<call, gatewayVars>>

GroupingKeyForLabelPairCall ==
    /\ call.fn = "GroupingKeyForLabelPair"
    /\ result = Nil
    /\ result' = Some(GroupingKeyForLabelPair(call.labels))
    /\ UNCHANGED <<call, gatewayVars>>

SplitLabelsCall ==
    /\ call.fn = "SplitLabels"
    /\ result = Nil
    /\ result' = Some(SplitLabels(call.labels, call.base64JobSuffix))
    /\ UNCHANGED <<call, gatewayVars>>

UtilsInit ==
    /\ skipConsistencyCheck = FALSE
    /\ metricGroups = <<>>
    /\ lock = [writer |-> FALSE, readers |-> 0]
    /\ writeQueue = <<>>
    /\ pc = "recv"
    /\ wr = NoRequest
    /\ err = "nil"
    /\ todo = {}
    /\ done = <<>>
    /\ waiting = {}
    /\ nSubmitted = 0
    /\ nReceived = 0
    /\ pcScrape = "idle"
    /\ snapshot = Nil
    /\ before = <<>>
    /\ panicked = FALSE
    /\ hasQueue = TRUE
    /\ status = 0
    /\ pcHealth = "idle"
    /\ healthy = "none"
    /\ pcGroups = "idle"
    /\ groups = Nil
    /\ \/ call \in SanitizeLabelsCalls
       \/ call \in GroupingKeyForCalls
       \/ call \in GroupingKeyForLabelPairCalls
       \/ call \in SplitLabelsCalls
    /\ result = Nil

UtilsNext ==
    \/ SanitizeLabelsCall
    \/ SanitizeLabelsAgain
    \/ GroupingKeyForCall
    \/ GroupingKeyForLabelPairCall
    \/ SplitLabelsCall

\* One call of a function of utils, on each of its inputs.
UtilsSpec == UtilsInit /\ [][UtilsNext]_vars

----------------------------------------------------------------------------
(* processWriteRequest called on a storage without queue *)
(* As the tests of the storage do: a MetricStorage with an empty map, and  *)
(* ms.processWriteRequest(wr) called on it for one request after another,  *)
(* no validator in between.  call is [fn, ms, wr, n]: the store the call   *)
(* finds, the request, and the number of the call; result is Nil, then     *)
(* Some([ms, wr]), the store and the request as the call left them.        *)

\* The calls of processWriteRequest in one run.
MaxApplied == 3

\* The bodies applied: foo as a counter of one series, of two series and of
\* one series twice, foo as a gauge beside bar, bar alone, and no family.
ApplyBodies ==
    {FamiliesOf({MetricFamily("foo", "COUNTER", <<Metric(<<>>, Sample(1))>>)}),
     FamiliesOf({MetricFamily("foo", "COUNTER",
                     <<Metric(<<LabelPair(NameA, ValX)>>, Sample(1)),
                       Metric(<<>>, Sample(2))>>)}),
     FamiliesOf({MetricFamily("foo", "COUNTER",
                     <<Metric(<<LabelPair(NameA, ValY)>>, Sample(1)),
                       Metric(<<LabelPair(NameA, ValY)>>, Sample(2))>>)}),
     FamiliesOf({MetricFamily("foo", "GAUGE", <<Metric(<<>>, Sample(2))>>),
                 MetricFamily("bar", "COUNTER", <<Metric(<<>>, Sample(1))>>)}),
     FamiliesOf({MetricFamily("bar", "COUNTER", <<Metric(<<>>, Sample(2))>>)}),
     <<>>}

\* The requests applied: every body for job=x, merged and replacing, one
\* body for job=y, and the delete for either.
ApplyRequests ==
    {[id |-> 0, Labels |-> JobLabel :> ValX, MetricFamilies |-> Some(families),
      Replace |-> replace, Done |-> Nil] :
        families \in ApplyBodies, replace \in BOOLEAN}
    \cup {[id |-> 0, Labels |-> JobLabel :> ValY,
           MetricFamilies |->
               Some(FamiliesOf({MetricFamily("foo", "COUNTER",
                                             <<Metric(<<>>, Sample(1))>>)})),
           Replace |-> FALSE, Done |-> Nil]}
    \cup {[id |-> 0, Labels |-> JobLabel :> v, MetricFamilies |-> Nil,
           Replace |-> FALSE, Done |-> Nil] : v \in {ValX, ValY}}

\* ms.processWriteRequest(wr) returns.
processWriteRequestCall ==
    /\ call.fn = "processWriteRequest"
    /\ result = Nil
    /\ result' = Some(processWriteRequest(call.ms, call.wr))
    /\ UNCHANGED <<call, gatewayVars>>

\* The next call, on the store the last one left.
NextRequest(w) ==
    /\ call.fn = "processWriteRequest"
    /\ result # Nil
    /\ call.n < MaxApplied
    /\ call' = [fn |-> "processWriteRequest", ms |-> result[1].ms, wr |-> w,
                n |-> call.n + 1]
    /\ result' = Nil
    /\ UNCHANGED gatewayVars

ApplyInit ==
    /\ skipConsistencyCheck = FALSE
    /\ metricGroups = <<>>
    /\ lock = [writer |-> FALSE, readers |-> 0]
    /\ writeQueue = <<>>
    /\ pc = "recv"
    /\ wr = NoRequest
    /\ err = "nil"
    /\ todo = {}
    /\ done = <<>>
    /\ waiting = {}
    /\ nSubmitted = 0
    /\ nReceived = 0
    /\ pcScrape = "idle"
    /\ snapshot = Nil
    /\ before = <<>>
    /\ panicked = FALSE
    /\ hasQueue = FALSE
    /\ status = 0
    /\ pcHealth = "idle"
    /\ healthy = "none"
    /\ pcGroups = "idle"
    /\ groups = Nil
    /\ call \in {[fn |-> "processWriteRequest", ms |-> <<>>, wr |-> w, n |-> 1] :
                    w \in ApplyRequests}
    /\ result = Nil

ApplyNext ==
    \/ processWriteRequestCall
    \/ \E w \in ApplyRequests : NextRequest(w)

\* Up to MaxApplied calls of processWriteRequest on a storage that starts
\* empty.
ApplySpec == ApplyInit /\ [][ApplyNext]_vars

----------------------------------------------------------------------------
(* Two checked pushes of histograms waiting when loop() starts *)
(* A body sent as delimited protobuf is taken family by family as it comes *)
(* (handler.Push), so a family may hold two metrics with the same labels.  *)

\* Bodies of the family foo: a histogram of one metric with one bucket, a
\* histogram of two metrics with the same labels and one bucket each, and a
\* counter.
TwinBodies ==
    {FamiliesOf({MetricFamily("foo", "HISTOGRAM",
                              <<Metric(<<>>, Histogram(<<Bucket(u, v)>>))>>)}) :
        u \in 1..2, v \in 1..MaxValue}
    \cup {FamiliesOf({MetricFamily("foo", "HISTOGRAM",
                                   <<Metric(<<>>, Histogram(<<Bucket(2, v)>>)),
                                     Metric(<<>>, Histogram(<<Bucket(2, v + 1)>>))>>)}) :
             v \in 1..MaxValue}
    \cup {FamiliesOf({MetricFamily("foo", "COUNTER", <<Metric(<<>>, Sample(1))>>)})}

\* What Push submits of them, but for id and Done.
TwinRequests ==
    {[Labels |-> labels, MetricFamilies |-> Some(families), Replace |-> replace] :
        labels \in GroupingLabels, families \in TwinBodies, replace \in BOOLEAN}

\* The gateway, the check not skipped, after two handlers have submitted and
\* before loop() has taken a request.
TwinInit ==
    /\ skipConsistencyCheck = FALSE
    /\ metricGroups = <<>>
    /\ lock = [writer |-> FALSE, readers |-> 0]
    /\ writeQueue \in {<<Submitted(r1, 1, FALSE), Submitted(r2, 2, FALSE)>> :
                          r1, r2 \in TwinRequests}
    /\ pc = "recv"
    /\ wr = NoRequest
    /\ err = "nil"
    /\ todo = {}
    /\ done = ErrChs(writeQueue)
    /\ waiting = DOMAIN done
    /\ nSubmitted = 2
    /\ nReceived = 0
    /\ pcScrape = "idle"
    /\ snapshot = Nil
    /\ before = <<>>
    /\ panicked = FALSE
    /\ hasQueue = TRUE
    /\ status = 0
    /\ pcHealth = "idle"
    /\ healthy = "none"
    /\ pcGroups = "idle"
    /\ groups = Nil
    /\ call = NoCall
    /\ result = Nil

TwinSpec == TwinInit /\ [][PairNext]_vars

----------------------------------------------------------------------------
(* The threads at the store lock *)
(* loop() with two writes waiting, a scrape thread and a health probe that *)
(* come again and again.  sync.RWMutex lets no thread starve: a Lock that  *)
(* waits holds back new readers, and the readers a writer held back enter  *)
(* when it unlocks.  The acquisitions are therefore strongly fair; a       *)
(* thread that holds the lock, or needs no lock for its step, runs on.     *)

\* What Push and Delete submit for job=x, but for id and Done.
LockRequests ==
    {[Labels |-> JobLabel :> ValX, MetricFamilies |-> Some(families),
      Replace |-> replace] : families \in ScrapeBodies, replace \in BOOLEAN}
    \cup {[Labels |-> JobLabel :> ValX, MetricFamilies |-> Nil, Replace |-> FALSE]}

LockInit ==
    /\ skipConsistencyCheck \in BOOLEAN
    /\ metricGroups = <<>>
    /\ lock = [writer |-> FALSE, readers |-> 0]
    /\ writeQueue \in {<<Submitted(r1, 1, skipConsistencyCheck),
                         Submitted(r2, 2, skipConsistencyCheck)>> :
                          r1, r2 \in LockRequests}
    /\ pc = "recv"
    /\ wr = NoRequest
    /\ err = "nil"
    /\ todo = {}
    /\ done = ErrChs(writeQueue)
    /\ waiting = DOMAIN done
    /\ nSubmitted = 2
    /\ nReceived = 0
    /\ pcScrape = "idle"
    /\ snapshot = Nil
    /\ before = <<>>
    /\ panicked = FALSE
    /\ hasQueue = TRUE
    /\ status = IF \A i \in DOMAIN writeQueue : writeQueue[i].Done # Nil
               THEN 0 ELSE StatusAccepted
    /\ pcHealth = "idle"
    /\ healthy = "none"
    /\ pcGroups = "idle"
    /\ groups = Nil
    /\ call = NoCall
    /\ result = Nil

LockNext ==
    \/ \E id \in waiting : RangeErrCh(id)
    \/ Worker
    \/ Scrape
    \/ Health

LockSpec ==
    /\ LockInit /\ [][LockNext]_vars
    /\ SF_vars(Receive) /\ SF_vars(Lock)
    /\ WF_vars(Apply) /\ WF_vars(Unlock) /\ WF_vars(Send) /\ WF_vars(Close)
    /\ SF_vars(ScrapeRLock) /\ WF_vars(ScrapeCopy) /\ WF_vars(ScrapeReturn)
    /\ SF_vars(HealthyLock) /\ WF_vars(HealthyReturn)

----------------------------------------------------------------------------
(* Properties *)

\* Every family the store holds, whatever its group.
StoredFamilies(ms) ==
    UNION {{ms[k].MetricFamilies[n] : n \in DOMAIN ms[k].MetricFamilies} : k \in DOMAIN ms}

\* The store holds a family of the name of one of these, with another type.
HoldsOtherType(ms, families) ==
    \E f \in StoredFamilies(ms) : \E n \in DOMAIN families :
        f.Name = families[n].Name /\ f.Type # families[n].Type

\* loop() has validated wr and has not yet touched the store for it.
JustValidated == pc \in {"process", "send"} \/ (pc = "close" /\ err # "nil")

\* loop() is done with request id.
Finished(id) == nReceived > id \/ (nReceived = id /\ pc = "recv")

\* C1: a checked write that carries a family the store holds with another
\* type, in any group, in merge or replace mode, is rejected: the validator
\* returns an error, the store stays as it was, and by the time loop() closes
\* Done that error is the one value sent on it.
C1_TypeConflictRejected ==
    (/\ JustValidated
     /\ wr.Done # Nil
     /\ wr.MetricFamilies # Nil
     /\ HoldsOtherType(before, wr.MetricFamilies[1]))
    => /\ err # "nil"
       /\ metricGroups = before
       /\ pc = "close" =>
              /\ wr.Done[1] \in DOMAIN done
              /\ done[wr.Done[1]].sent = <<[err |-> err, for |-> wr.id]>>

\* C1 witness: a checked replace of another grouping key was rejected for the
\* type of its family and the error was sent.
C1_Witness ==
    /\ pc = "close"
    /\ err = "TypeConflict"
    /\ wr.Done # Nil
    /\ wr.Replace
    /\ metricGroups # <<>>
    /\ GroupingKeyFor(wr.Labels) \notin DOMAIN metricGroups

\* Families of one name have one type.
OneTypePerName(families) ==
    \A f, g \in families : f.Name = g.Name => f.Type = g.Type

\* C2: at every moment any two stored families of one name, in one group or
\* in two, have the same type, and so have the families of every scrape.
C2_ScrapeConsistency ==
    /\ OneTypePerName(StoredFamilies(metricGroups))
    /\ snapshot # Nil => OneTypePerName(BagToSet(snapshot[1]))

\* C2 witness: without the consistency check, a scrape returned the same
\* family name from two groups.
C2_Witness ==
    /\ skipConsistencyCheck
    /\ snapshot # Nil
    /\ \E f \in BagToSet(snapshot[1]) :
           \/ CopiesIn(f, snapshot[1]) > 1
           \/ \E g \in BagToSet(snapshot[1]) : g # f /\ g.Name = f.Name

\* C3: every snapshot is of the store as the last completed write left it,
\* never of a store some write has been applied to in part: the one a scrape
\* copies under the reader lock (GetMetricFamilies), and the one loop() has
\* its validator copy (GetMetricGroups) when it takes a request.
C3_SnapshotAtomic ==
    [][/\ (pcScrape = "copy" /\ pcScrape' = "return")
              => snapshot' = Some(GetMetricFamilies(before))
       /\ (pc = "recv" /\ pc' # "recv")
              => (~lock.writer /\ metricGroups = before)]_vars

\* C3 witness: a scrape holds its result while loop() is in the middle of
\* merging a request of two families into the store.
C3_Witness ==
    /\ pcScrape = "return"
    /\ snapshot = Some(GetMetricFamilies(before))
    /\ lock.writer
    /\ todo # {}
    /\ metricGroups # before

\* C4: loop() takes the requests in the order of their submission: the one
\* it works on is the nReceived-th submitted, and the queue holds the
\* following ones in order.
C4_Fifo ==
    /\ pc # "recv" => wr.id = nReceived
    /\ \A i \in DOMAIN writeQueue : writeQueue[i].id = nReceived + i

\* C4 witness: loop() works on the first request while two more for one
\* grouping key wait in the queue.
C4_Witness ==
    /\ pc # "recv"
    /\ Len(writeQueue) = 2
    /\ writeQueue[1].Labels = writeQueue[2].Labels

\* C5: a request without Done that fails validation is not applied, and
\* loop() can go on (to the requests enqueued after it).
C5_UncheckedRejectionNonBlocking ==
    (pc # "recv" /\ err # "nil" /\ wr.Done = Nil)
    => (metricGroups = before /\ ENABLED Worker)

\* C6: every enqueued request is eventually processed by loop().
C6_EveryRequestProcessed ==
    \A id \in 1..MaxWrites : (nSubmitted >= id) ~> Finished(id)

\* C7: loop() never panics on a channel (no send after close, no second
\* close); on each Done it has sent at most one value, and that for the
\* request owning the channel; and once it is done with the request, Done is
\* closed.
C7_AcknowledgementSafety ==
    /\ ~panicked
    /\ \A id \in DOMAIN done :
           /\ Len(done[id].sent) <= 1
           /\ \A i \in DOMAIN done[id].sent : done[id].sent[i].for = id
           /\ Finished(id) => done[id].closed

\* C7 witness: a Done that got its one value and was closed, its handler
\* still to read it.
C7_Witness ==
    \E id \in DOMAIN done :
        done[id].closed /\ Len(done[id].sent) = 1 /\ done[id].buf # <<>>

\* C8 as claimed: by the time Done is closed, loop() has sent the validator's
\* result on it, nil included.
C8_ResultAlwaysSent ==
    \A id \in DOMAIN done : done[id].closed => Len(done[id].sent) = 1

\* C8 as amended: when loop() comes to close Done, it has sent the
\* validator's error on it if validation failed, and nothing if validation
\* succeeded; a nil is never sent.
C8_ErrorSentOnlyOnFailure ==
    /\ (pc = "close" /\ wr.Done # Nil) =>
           /\ wr.Done[1] \in DOMAIN done
           /\ done[wr.Done[1]].sent =
                  IF err = "nil" THEN <<>> ELSE <<[err |-> err, for |-> wr.id]>>
    /\ \A id \in DOMAIN done : \A i \in DOMAIN done[id].sent :
           done[id].sent[i].err # "nil"

\* C8 witness: an accepted and applied checked request, about to be closed.
C8_Witness ==
    /\ pc = "close"
    /\ wr.Done # Nil
    /\ err = "nil"
    /\ wr.MetricFamilies # Nil
    /\ metricGroups # <<>>

\* Some metric of some family carries a timestamp.
HasTimestamp(families) ==
    \E n \in DOMAIN families : \E i \in DOMAIN families[n].Metric :
        families[n].Metric[i].TimestampMs # Nil

\* C9: a request with a timestamp in any metric never passes validation,
\* with or without Done (it is refused and the store stays as it was), and
\* no stored metric has a timestamp.
C9_TimestampRejected ==
    /\ (pc # "recv" /\ wr.MetricFamilies # Nil /\ HasTimestamp(wr.MetricFamilies[1]))
           => (err # "nil" /\ metricGroups = before)
    /\ \A f \in StoredFamilies(metricGroups) :
           \A i \in DOMAIN f.Metric : f.Metric[i].TimestampMs = Nil

\* C9 witness: a request without Done was refused for its timestamp.
C9_Witness ==
    /\ err = "TimestampForbidden"
    /\ wr.Done = Nil
    /\ wr.MetricFamilies # Nil

\* The label signature of a metric: its set of (name, value) pairs.
LabelSet(m) == {<<m.Label[i].Name, m.Label[i].Value>> : i \in DOMAIN m.Label}

NoDuplicateSeries(ms) ==
    \A f \in StoredFamilies(ms) : \A i, j \in DOMAIN f.Metric :
        LabelSet(f.Metric[i]) = LabelSet(f.Metric[j]) => i = j

\* C10 as claimed: no stored family holds two metrics of one label
\* signature, checked or unchecked.
C10_NoDuplicateSeries == NoDuplicateSeries(metricGroups)

\* C10 as amended: with the consistency check on (every push carries Done),
\* no stored family holds two metrics of one label signature.
C10_NoDuplicateSeriesChecked ==
    ~skipConsistencyCheck => NoDuplicateSeries(metricGroups)

\* C10 witness: with the store not empty, a checked push that would store
\* one series twice was refused by the gathering and its error sent.
C10_Witness ==
    /\ ~skipConsistencyCheck
    /\ pc = "close"
    /\ err = "InconsistentOnGather"
    /\ metricGroups # <<>>

\* Metric m carries label name with this value, and with no other.
Carries(m, name, value) ==
    /\ \E i \in DOMAIN m.Label : m.Label[i].Name = name
    /\ \A i \in DOMAIN m.Label : m.Label[i].Name = name => m.Label[i].Value = value

\* C11: every metric of every family of every stored group carries each
\* grouping label of its group with the group's value, whatever the producer
\* gave for that name, and carries an instance label.
C11_GroupingLabelsOnMetrics ==
    \A k \in DOMAIN metricGroups :
        \A n \in DOMAIN metricGroups[k].MetricFamilies :
            \A i \in DOMAIN metricGroups[k].MetricFamilies[n].Metric :
                /\ \A ln \in DOMAIN metricGroups[k].Labels :
                       Carries(metricGroups[k].MetricFamilies[n].Metric[i], ln,
                               metricGroups[k].Labels[ln])
                /\ \E j \in DOMAIN metricGroups[k].MetricFamilies[n].Metric[i].Label :
                       metricGroups[k].MetricFamilies[n].Metric[i].Label[j].Name
                           = InstanceLabel

\* C11 witness: the store holds, under job=x, the two metrics of a body that
\* gave them job=x and job=y: both now carry the group's value.
C11_Witness ==
    \E k \in DOMAIN metricGroups :
        /\ metricGroups[k].Labels[JobLabel] = ValX
        /\ "foo" \in DOMAIN metricGroups[k].MetricFamilies
        /\ Len(metricGroups[k].MetricFamilies["foo"].Metric) = 2
        /\ metricGroups[k].MetricFamilies["foo"].Metric[1].Label
               = metricGroups[k].MetricFamilies["foo"].Metric[2].Label

\* The grouping key of the request loop() holds.
Key == GroupingKeyFor(wr.Labels)

\* loop() has just merged wr into the group `before` holds for its key, and
\* for family n, of type mt in both, that was one metric merged into one
\* metric of the same labels.
MergedSameSeries(n, mt) ==
    /\ pc = "unlock"
    /\ wr.MetricFamilies # Nil
    /\ ~wr.Replace
    /\ Key \in DOMAIN before
    /\ n \in DOMAIN wr.MetricFamilies[1]
    /\ n \in DOMAIN before[Key].MetricFamilies
    /\ wr.MetricFamilies[1][n].Type = mt
    /\ before[Key].MetricFamilies[n].Type = mt
    /\ Len(wr.MetricFamilies[1][n].Metric) = 1
    /\ Len(before[Key].MetricFamilies[n].Metric) = 1
    /\ wr.MetricFamilies[1][n].Metric[1].Label
           = before[Key].MetricFamilies[n].Metric[1].Label

\* The store the two writes give in the other order: wr on the empty store,
\* then the request that made the group `before` holds.
OtherOrder ==
    processWriteRequest(
        processWriteRequest(<<>>, wr).ms,
        [wr EXCEPT !.MetricFamilies = Some(before[Key].MetricFamilies)]).ms

\* C12: two merge-mode writes of one counter series to one grouping key of
\* an empty store leave one family with one metric whose value is the sum of
\* both values, and nothing else changed; applied in the other order they
\* give the same store.
C12_CounterAccumulation ==
    \A n \in {"foo", "bar"} :
        MergedSameSeries(n, "COUNTER") =>
            /\ metricGroups =
                   [before EXCEPT ![Key].MetricFamilies[n].Metric[1].Value.Value =
                       @ + wr.MetricFamilies[1][n].Metric[1].Value.Value]
            /\ metricGroups = OtherOrder

\* C12 witness: counters of values 1 and 2 were merged, in this order.
C12_Witness ==
    /\ MergedSameSeries("foo", "COUNTER")
    /\ before[Key].MetricFamilies["foo"].Metric[1].Value.Value = 1
    /\ wr.MetricFamilies[1]["foo"].Metric[1].Value.Value = 2
    /\ metricGroups[Key].MetricFamilies["foo"].Metric[1].Value.Value = 3

\* C13: when a gauge, an untyped metric or a summary is merged into a stored
\* metric of the same family and labels, the stored payload becomes the
\* incoming one, with nothing of the earlier payload, and nothing else
\* changes.
C13_LastWriteWins ==
    \A n \in {"foo", "bar"}, mt \in {"GAUGE", "UNTYPED", "SUMMARY"} :
        MergedSameSeries(n, mt) =>
            metricGroups =
                [before EXCEPT ![Key].MetricFamilies[n].Metric[1].Value =
                    wr.MetricFamilies[1][n].Metric[1].Value]

\* C13 witness: a summary of another payload replaced the stored one.
C13_Witness ==
    /\ MergedSameSeries("foo", "SUMMARY")
    /\ before[Key].MetricFamilies["foo"].Metric[1].Value = Summary(1)
    /\ wr.MetricFamilies[1]["foo"].Metric[1].Value = Summary(2)
    /\ metricGroups[Key].MetricFamilies["foo"].Metric[1].Value = Summary(2)

\* The upper bounds of the buckets of histogram h.
Bounds(h) == {h.Bucket[i].UpperBound : i \in DOMAIN h.Bucket}

\* The cumulative count histogram h has for upper bound u, 0 if it has no
\* such bucket.
CountAt(h, u) ==
    SumOver(DOMAIN h.Bucket,
            [i \in DOMAIN h.Bucket |->
                IF h.Bucket[i].UpperBound = u THEN h.Bucket[i].CumulativeCount
                ELSE 0])

\* h is the merge of histogram h2 into histogram h1.
IsHistogramMerge(h, h1, h2) ==
    /\ h.SampleCount = h1.SampleCount + h2.SampleCount
    /\ h.SampleSum = h1.SampleSum + h2.SampleSum
    /\ Bounds(h) = Bounds(h1) \cup Bounds(h2)
    /\ Cardinality(Bounds(h)) = Len(h.Bucket)
    /\ \A u \in Bounds(h) : CountAt(h, u) = CountAt(h1, u) + CountAt(h2, u)

\* C14: merging a histogram into a stored one of the same family and labels
\* adds the sample counts and the sample sums, and leaves one bucket for
\* every upper bound of either, with the sum of the two cumulative counts
\* where both have the bound and the one count where only one has it; nothing
\* else in the store changes.
C14_HistogramMerge ==
    \A n \in {"foo", "bar"} :
        MergedSameSeries(n, "HISTOGRAM") =>
            /\ IsHistogramMerge(metricGroups[Key].MetricFamilies[n].Metric[1].Value,
                                before[Key].MetricFamilies[n].Metric[1].Value,
                                wr.MetricFamilies[1][n].Metric[1].Value)
            /\ before =
                   [metricGroups EXCEPT ![Key].MetricFamilies[n].Metric[1].Value =
                       before[Key].MetricFamilies[n].Metric[1].Value]

\* C14 witness: a histogram with buckets 1 and 2 was merged into one with
\* bucket 1 only.
C14_Witness ==
    /\ MergedSameSeries("foo", "HISTOGRAM")
    /\ before[Key].MetricFamilies["foo"].Metric[1].Value.Bucket = <<Bucket(1, 1)>>
    /\ wr.MetricFamilies[1]["foo"].Metric[1].Value.Bucket
           = <<Bucket(1, 2), Bucket(2, 3)>>
    /\ metricGroups[Key].MetricFamilies["foo"].Metric[1].Value.Bucket
           = <<Bucket(1, 3), Bucket(2, 3)>>

\* The store without the group of this key.
Without(ms, key) == [k \in DOMAIN ms \ {key} |-> ms[k]]

\* The families GetMetricFamilies returns for this store, as a set.
SnapshotOf(ms) == DOMAIN GetMetricFamilies(ms)

\* C15: when a request without families has been processed, it was accepted,
\* the store is the store before it without the group of its grouping key,
\* so unchanged if there was none, and a snapshot holds none of that group's
\* families.
C15_DeleteErases ==
    (pc = "unlock" /\ wr.MetricFamilies = Nil) =>
        /\ err = "nil"
        /\ Key \notin DOMAIN metricGroups
        /\ metricGroups = Without(before, Key)
        /\ Key \notin DOMAIN before => metricGroups = before
        /\ Key \in DOMAIN before =>
               \A n \in DOMAIN before[Key].MetricFamilies :
                   CopyMetricFamily(before[Key].MetricFamilies[n])
                       \notin SnapshotOf(metricGroups)

\* C15 witness: one of two groups was deleted.
C15_Witness ==
    /\ pc = "unlock"
    /\ wr.MetricFamilies = Nil
    /\ Key \in DOMAIN before
    /\ metricGroups # <<>>
    /\ metricGroups # before

\* The store with the group of wr put at its grouping key, whatever was there.
Put(ms, w) ==
    [k \in DOMAIN ms \cup {GroupingKeyFor(w.Labels)} |->
        IF k = GroupingKeyFor(w.Labels)
        THEN [Labels |-> w.Labels, MetricFamilies |-> w.MetricFamilies[1]]
        ELSE ms[k]]

\* C16: when an accepted request with families has been processed that asks
\* to replace, or whose grouping key had no group, the group at its key holds
\* exactly the sanitized families of the request and nothing of what the
\* group held before, and the other groups are unchanged.
C16_ReplaceSemantics ==
    (/\ pc = "unlock"
     /\ wr.MetricFamilies # Nil
     /\ wr.Replace \/ Key \notin DOMAIN before) =>
        /\ err = "nil"
        /\ wr = Sanitized(wr)
        /\ metricGroups = Put(before, wr)

\* C16 witness: a group holding family foo was replaced by one holding
\* family bar only.
C16_Witness ==
    /\ pc = "unlock"
    /\ wr.MetricFamilies # Nil
    /\ wr.Replace
    /\ Key \in DOMAIN before
    /\ DOMAIN before[Key].MetricFamilies = {"foo"}
    /\ DOMAIN wr.MetricFamilies[1] = {"bar"}
    /\ DOMAIN metricGroups[Key].MetricFamilies = {"bar"}

\* The queue holds at most its capacity, and holds once each the requests
\* submitted and not yet received by loop().
QueueBounded ==
    /\ Len(writeQueue) <= writeQueueCapacity
    /\ Len(writeQueue) = nSubmitted - nReceived
    /\ \A i, j \in DOMAIN writeQueue :
           writeQueue[i].id = writeQueue[j].id => i = j

\* A step changes the queue only by appending the request being submitted
\* when there is room, or by loop() taking its head.
QueueStep ==
    \/ writeQueue' = writeQueue /\ nSubmitted' = nSubmitted
    \/ /\ Len(writeQueue) < writeQueueCapacity
       /\ nSubmitted' = nSubmitted + 1
       /\ Len(writeQueue') = Len(writeQueue) + 1
       /\ writeQueue' = Append(writeQueue, writeQueue'[Len(writeQueue')])
       /\ writeQueue'[Len(writeQueue')].id = nSubmitted'
    \/ /\ writeQueue # <<>>
       /\ nSubmitted' = nSubmitted
       /\ writeQueue' = Tail(writeQueue)
       /\ wr'.id = Head(writeQueue).id

HealthyStep ==
    pcHealth' # pcHealth =>
        /\ metricGroups' = metricGroups
        /\ writeQueue' = writeQueue
        /\ pcHealth' = "idle" =>
               /\ healthy' \in {"nil", "write queue is full"}
               /\ healthy' # "nil" <=>
                      (hasQueue /\ Len(writeQueue) = writeQueueCapacity)

\* C18: Healthy returns an error exactly when the write queue holds as many
\* requests as its capacity, never for a storage made without a queue, and
\* nil otherwise; no step of it changes the store or the queue.
C18_HealthProbe == [][HealthyStep]_vars

\* C18 witness: Healthy has returned its error, the queue being full.
C18_Witness ==
    /\ pcHealth = "idle"
    /\ healthy = "write queue is full"
    /\ Len(writeQueue) = writeQueueCapacity
    /\ status = StatusInternalServerError

\* The handler of checked push id ends in this step.
HandlerEnds(id) == id \in waiting /\ id \notin waiting'

\* C19: a checked push whose body parsed is answered 400 when loop() has
\* sent a validation error on its Done, and 202 when loop() has accepted and
\* applied the request.
C19_CheckedPushStatus ==
    [][\A id \in waiting :
           HandlerEnds(id) =>
               status' = IF done[id].sent # <<>> THEN StatusBadRequest
                         ELSE StatusAccepted]_vars

\* This step is a push or a delete on the route with @base64 and this job
\* segment, and submits a request.
SubmitsOnBase64(job) ==
    /\ nSubmitted' = nSubmitted + 1
    /\ \/ \E families \in RouteBodies, replace \in BOOLEAN :
              PushOn(TRUE, job, families, replace)
       \/ DeleteOn(TRUE, job)

\* C20: a push or a delete on the @base64 route whose job segment is a valid
\* encoding submits a request whose grouping labels have job equal to the
\* decoded segment.
C20_Base64JobDecoded ==
    [][\A job \in JobSegments :
           (DecodeBase64(job).err = "nil" /\ SubmitsOnBase64(job)) =>
               writeQueue'[Len(writeQueue')].Labels[JobLabel]
                   = DecodeBase64(job).value]_vars

\* This step is a push or a delete on the route with @base64 and this job
\* segment.
HandledOnBase64(job) ==
    \/ \E families \in RouteBodies, replace \in BOOLEAN :
           PushOn(TRUE, job, families, replace)
    \/ DeleteOn(TRUE, job)

\* C21: a push or a delete on the @base64 route whose job segment is not
\* empty and decodes to the empty string is answered 400, and no request is
\* enqueued.
C21_EmptyDecodedJobRejected ==
    [][\A job \in JobSegments :
           (/\ job # <<>>
            /\ DecodeBase64(job) = [value |-> <<>>, err |-> "nil"]
            /\ HandledOnBase64(job)) =>
               /\ status' = StatusBadRequest
               /\ writeQueue' = writeQueue
               /\ nSubmitted' = nSubmitted]_vars

\* C22: what GetMetricGroups returned shares nothing with the store: when
\* the caller changes it (a label of a group, a family), the store stays as
\* it is.
C22_SnapshotsAreDeepCopies ==
    [][(pcGroups = "held" /\ pcGroups' = "held" /\ groups' # groups) =>
           metricGroups' = metricGroups]_vars

\* Two metrics of one family name and one label signature somewhere in the
\* families of all groups of ms taken together.
DuplicateSeries(ms) ==
    \E k1, k2 \in DOMAIN ms :
        \E n \in DOMAIN ms[k1].MetricFamilies \cap DOMAIN ms[k2].MetricFamilies :
            \E i \in DOMAIN ms[k1].MetricFamilies[n].Metric,
               j \in DOMAIN ms[k2].MetricFamilies[n].Metric :
                /\ <<k1, i>> # <<k2, j>>
                /\ LabelSet(ms[k1].MetricFamilies[n].Metric[i])
                       = LabelSet(ms[k2].MetricFamilies[n].Metric[j])

\* Applying request r, sanitized, to store ms would leave one series twice.
WouldDuplicate(ms, r) ==
    /\ r.MetricFamilies # Nil
    /\ DuplicateSeries(processWriteRequest(ms, Sanitized(r)).ms)

\* loop() is past the validator with a refusal for a request that has Done.
RefusedChecked == wr.Done # Nil /\ err # "nil" /\ pc \in {"send", "close"}

\* C23: when loop() takes a request with Done whose application to the store
\* as it is, grouping labels written over the producer's, would leave two
\* metrics of one family name and one label signature, the validator refuses
\* it; a refused request never changes the store, and its error is what its
\* Done received before it is closed.
C23_DeepCheckRejectsDuplicates ==
    /\ [][(/\ nReceived' = nReceived + 1
           /\ Head(writeQueue).Done # Nil
           /\ WouldDuplicate(metricGroups, Head(writeQueue))) =>
              (err' # "nil" /\ pc' = "send" /\ metricGroups' = metricGroups)]_vars
    /\ [][RefusedChecked => metricGroups' = metricGroups]_vars
    /\ [](RefusedChecked /\ pc = "close" /\ ~panicked =>
              /\ wr.Done[1] \in DOMAIN done
              /\ done[wr.Done[1]].sent = <<[err |-> err, for |-> wr.id]>>)

\* C23 witness: a request with Done whose two metrics differ only in the
\* producer's value of a grouping label was refused by the gathering, the
\* store holding what it held, the error on its Done.
C23_Witness ==
    /\ RefusedChecked
    /\ pc = "close"
    /\ err = "InconsistentOnGather"
    /\ \E n \in DOMAIN wr.MetricFamilies[1] :
           \E i, j \in DOMAIN wr.MetricFamilies[1][n].Metric :
               /\ i # j
               /\ wr.MetricFamilies[1][n].Metric[i].Label
                      = wr.MetricFamilies[1][n].Metric[j].Label
    /\ metricGroups = before
    /\ done[wr.Done[1]].sent = <<[err |-> err, for |-> wr.id]>>

\* C24: SanitizeLabels called a second time with the same grouping labels,
\* on the family its first call left, leaves that family as it is: the same
\* metrics, each with the same label pairs in the same order with the same
\* values.
C24_SanitizeIdempotent ==
    [][(call.fn = "SanitizeLabels" /\ ~call.again /\ call'.again) =>
           result' = result]_vars

\* C24 witness: the second call has returned for a metric that came with two
\* pairs of a grouping label's name and without an instance label, which the
\* first call changed.
C24_Witness ==
    /\ call.fn = "SanitizeLabels"
    /\ call.again
    /\ result[1] # call.mf
    /\ \E i, j \in DOMAIN call.mf.Metric[1].Label :
           /\ i # j
           /\ call.mf.Metric[1].Label[i].Name = call.mf.Metric[1].Label[j].Name
           /\ call.mf.Metric[1].Label[i].Name \in DOMAIN call.groupingLabels
           /\ call.mf.Metric[1].Label[i].Value # call.mf.Metric[1].Label[j].Value
    /\ \A i \in DOMAIN call.mf.Metric[1].Label :
           call.mf.Metric[1].Label[i].Name # InstanceLabel

\* No name and no value of the label map holds the separator byte.
SeparatorFree(labels) ==
    \A name \in DOMAIN labels :
        /\ \A i \in DOMAIN name : name[i] # SeparatorByte
        /\ \A i \in DOMAIN labels[name] : labels[name][i] # SeparatorByte

\* parts is name, value, name, value, ... over the names of labels, each name
\* once, the names ascending.
NamesAndValues(parts, labels) ==
    /\ Len(parts) = 2 * Cardinality(DOMAIN labels)
    /\ \A i \in 1..Cardinality(DOMAIN labels) :
           /\ parts[2 * i - 1] \in DOMAIN labels
           /\ parts[2 * i] = labels[parts[2 * i - 1]]
           /\ 2 * i < Len(parts) => StrLess(parts[2 * i - 1], parts[2 * i + 1])

\* The label pairs name each label once.
DistinctNames(pairs) ==
    \A i, j \in DOMAIN pairs : pairs[i].Name = pairs[j].Name => i = j

\* C25: GroupingKeyFor of the empty or nil label map is the empty string; of
\* a map of n labels whose names and values hold no separator byte it is a
\* string that splits on the separator into exactly 2n parts: name, value,
\* name, value, ... with the names ascending, one separator between two
\* parts and none after the last.  The key depends on what the map holds
\* only: label pairs put into it in another order give the same key.
C25_GroupingKeyConstruction ==
    /\ (call.fn = "GroupingKeyFor" /\ result # Nil) =>
           IF DOMAIN call.labels = {} THEN result[1] = <<>>
           ELSE SeparatorFree(call.labels) =>
                    NamesAndValues(Split(result[1], SeparatorByte), call.labels)
    /\ (call.fn = "GroupingKeyForLabelPair" /\ result # Nil
            /\ DistinctNames(call.labels)) =>
           \A other \in MetricLabels :
               {other[i] : i \in DOMAIN other} = {call.labels[i] : i \in DOMAIN call.labels}
                   /\ Len(other) = Len(call.labels)
                   => GroupingKeyForLabelPair(other) = result[1]

\* C25 witness: GroupingKeyFor has returned the key of three labels without
\* a separator byte, one of them with the empty value.
C25_Witness ==
    /\ call.fn = "GroupingKeyFor"
    /\ result # Nil
    /\ Cardinality(DOMAIN call.labels) = 3
    /\ SeparatorFree(call.labels)
    /\ \E name \in DOMAIN call.labels : call.labels[name] = <<>>
    /\ Len(Split(result[1], SeparatorByte)) = 6

\* C26: the grouping key of the labels of a push is the key of no other
\* label map a push can build: two different label maps never have one key.
C26_GroupingKeyUnique ==
    (call.fn = "GroupingKeyFor" /\ result # Nil) =>
        \A other \in PushLabels :
            other # call.labels => GroupingKeyFor(other) # result[1]

\* The names of a label path's components: the components at the odd places.
NamePlaces(components) == {i \in DOMAIN components : i % 2 = 1}

\* A name SplitLabels takes: what is left of it without the suffix matches
\* the label-name pattern and does not begin with "__".
ProperName(name, base64JobSuffix) ==
    /\ LabelNameRE(TrimSuffix(name, base64JobSuffix))
    /\ ~HasPrefix(TrimSuffix(name, base64JobSuffix), ReservedLabelPrefix)

\* The path's value for a name: of the last pair under that name.
ValueOf(components, name, base64JobSuffix) ==
    components[1 + CHOOSE i \in NamePlaces(components) :
                       /\ TrimSuffix(components[i], base64JobSuffix) = name
                       /\ \A j \in NamePlaces(components) :
                              TrimSuffix(components[j], base64JobSuffix) = name
                                  => j <= i]

\* C27: SplitLabels returns the empty map and no error for a path of length
\* 0 or 1.  For a longer path it returns an error and a nil map when the
\* number of components, one leading '/' dropped, is odd, or when a name,
\* its suffix removed, does not match the label-name pattern or begins with
\* "__".  Otherwise, when no name has the suffix, it returns no error and
\* the map from the path's names to their values (of a name that comes
\* twice, the later value).
C27_LabelPathErrors ==
    (call.fn = "SplitLabels" /\ result # Nil) =>
        IF Len(call.labels) <= 1
        THEN result[1] = [labels |-> Some(<<>>), err |-> "nil"]
        ELSE IF \/ Len(Components(call.labels)) % 2 = 1
                \/ \E i \in NamePlaces(Components(call.labels)) :
                       ~ProperName(Components(call.labels)[i], call.base64JobSuffix)
        THEN result[1].labels = Nil /\ result[1].err # "nil"
        ELSE (\A i \in NamePlaces(Components(call.labels)) :
                  TrimSuffix(Components(call.labels)[i], call.base64JobSuffix)
                      = Components(call.labels)[i]) =>
                 /\ result[1].err = "nil"
                 /\ result[1].labels # Nil
                 /\ DOMAIN result[1].labels[1]
                        = {Components(call.labels)[i] :
                              i \in NamePlaces(Components(call.labels))}
                 /\ \A name \in DOMAIN result[1].labels[1] :
                        result[1].labels[1][name]
                            = ValueOf(Components(call.labels), name,
                                      call.base64JobSuffix)

\* C27 witness: SplitLabels has refused a path of three components whose
\* names are all proper, for the last name having no value.
C27_Witness ==
    /\ call.fn = "SplitLabels"
    /\ result # Nil
    /\ Len(Components(call.labels)) = 3
    /\ \A i \in NamePlaces(Components(call.labels)) :
           ProperName(Components(call.labels)[i], call.base64JobSuffix)
    /\ result[1].labels = Nil
    /\ result[1].err = "odd number of components"

\* The value SplitLabels stores for the pair at place i: decoded when the
\* name ends with the suffix, as it stands in the path when it does not.
StoredValue(components, i, base64JobSuffix) ==
    IF HasSuffix(components[i], base64JobSuffix)
    THEN DecodeBase64(components[i + 1]).value
    ELSE components[i + 1]

\* The place of the last pair whose name, without the suffix, is name.
LastPlaceOf(components, name, base64JobSuffix) ==
    CHOOSE i \in NamePlaces(components) :
        /\ TrimSuffix(components[i], base64JobSuffix) = name
        /\ \A j \in NamePlaces(components) :
               TrimSuffix(components[j], base64JobSuffix) = name => j <= i

\* C28: with a suffix that is not empty, SplitLabels returns an error and a
\* nil map when the value of a name that ends with the suffix does not
\* decode; when every such value decodes (and the path has an even number of
\* components and proper names) it returns the map that holds, under each
\* name without its suffix, the decoded value if the name ended with the
\* suffix and the value as it stands if it did not.
C28_Base64LabelValues ==
    (/\ call.fn = "SplitLabels"
     /\ result # Nil
     /\ call.base64JobSuffix # <<>>
     /\ Len(call.labels) > 1) =>
        IF \E i \in NamePlaces(Components(call.labels)) :
               /\ i < Len(Components(call.labels))
               /\ HasSuffix(Components(call.labels)[i], call.base64JobSuffix)
               /\ DecodeBase64(Components(call.labels)[i + 1]).err # "nil"
        THEN result[1].labels = Nil /\ result[1].err # "nil"
        ELSE (/\ Len(Components(call.labels)) % 2 = 0
              /\ \A i \in NamePlaces(Components(call.labels)) :
                     ProperName(Components(call.labels)[i], call.base64JobSuffix)) =>
                 /\ result[1].err = "nil"
                 /\ result[1].labels # Nil
                 /\ DOMAIN result[1].labels[1]
                        = {TrimSuffix(Components(call.labels)[i], call.base64JobSuffix) :
                              i \in NamePlaces(Components(call.labels))}
                 /\ \A name \in DOMAIN result[1].labels[1] :
                        result[1].labels[1][name]
                            = StoredValue(Components(call.labels),
                                          LastPlaceOf(Components(call.labels), name,
                                                      call.base64JobSuffix),
                                          call.base64JobSuffix)

\* C28 witness: from the path k@base64/eA/m/eA SplitLabels has returned
\* k = "x", decoded, and m = "eA", as it stands.
C28_Witness ==
    /\ call.fn = "SplitLabels"
    /\ call.base64JobSuffix = Base64JobSuffix
    /\ Components(call.labels)
           = <<<<107>> \o Base64JobSuffix, <<101, 65>>, <<109>>, <<101, 65>>>>
    /\ result = Some([labels |-> Some((<<107>> :> <<120>>) @@ (<<109>> :> <<101, 65>>)),
                      err |-> "nil"])

\* The label pairs are in ascending order of their names.
SortedByName(label) ==
    \A i \in 1..(Len(label) - 1) : ~StrLess(label[i + 1].Name, label[i].Name)

\* C29: once validateConsistency has returned for a request with families,
\* with or without an error, every metric of the request's families carries
\* each grouping label of the request with the request's value and an
\* instance label, and its label pairs are sorted by name.
C29_ValidatorAlwaysSanitizes ==
    (JustValidated /\ wr.MetricFamilies # Nil) =>
        \A n \in DOMAIN wr.MetricFamilies[1] :
            \A i \in DOMAIN wr.MetricFamilies[1][n].Metric :
                /\ \A ln \in DOMAIN wr.Labels :
                       Carries(wr.MetricFamilies[1][n].Metric[i], ln, wr.Labels[ln])
                /\ \E j \in DOMAIN wr.MetricFamilies[1][n].Metric[i].Label :
                       wr.MetricFamilies[1][n].Metric[i].Label[j].Name = InstanceLabel
                /\ SortedByName(wr.MetricFamilies[1][n].Metric[i].Label)

SignaturesOf(f) == {LabelSet(f.Metric[i]) : i \in DOMAIN f.Metric}

\* The last call of processWriteRequest merged its request into the group
\* the store held for its key, and that group held family n with the type
\* the request gives it.
MergedFamily(n) ==
    /\ call.fn = "processWriteRequest"
    /\ result # Nil
    /\ call.wr.MetricFamilies # Nil
    /\ ~call.wr.Replace
    /\ GroupingKeyFor(call.wr.Labels) \in DOMAIN call.ms
    /\ n \in DOMAIN call.wr.MetricFamilies[1]
    /\ n \in DOMAIN call.ms[GroupingKeyFor(call.wr.Labels)].MetricFamilies
    /\ call.ms[GroupingKeyFor(call.wr.Labels)].MetricFamilies[n].Type
           = call.wr.MetricFamilies[1][n].Type

\* Family f is family f1 with family f2 merged into it: the metrics of f1
\* in their places with their labels, untouched where f2 has no metric of
\* that signature, followed by the metrics of f2 whose signature f1 lacks.
IsFamilyMerge(f, f1, f2) ==
    /\ f.Name = f1.Name
    /\ f.Type = f1.Type
    /\ SignaturesOf(f) = SignaturesOf(f1) \cup SignaturesOf(f2)
    /\ Len(f.Metric) >= Len(f1.Metric)
    /\ \A i \in DOMAIN f1.Metric :
           /\ f.Metric[i].Label = f1.Metric[i].Label
           /\ LabelSet(f1.Metric[i]) \notin SignaturesOf(f2)
                  => f.Metric[i] = f1.Metric[i]
    /\ SubSeq(f.Metric, Len(f1.Metric) + 1, Len(f.Metric))
           = SelectSeq(f2.Metric, LAMBDA m : LabelSet(m) \notin SignaturesOf(f1))

\* C31: when processWriteRequest merges a request into the group of its key
\* and the group holds a family of the name and type of one of the request's,
\* the store has the groups it had, the group holds one family of that name,
\* and that family is the stored one with each incoming metric of a stored
\* signature merged into the stored metric and each incoming metric of a new
\* signature appended: its signatures are those of both.
C31_FamilyMergeUnion ==
    \A n \in {"foo", "bar"} :
        MergedFamily(n) =>
            /\ DOMAIN result[1].ms = DOMAIN call.ms
            /\ Cardinality(
                   {m \in DOMAIN result[1].ms[GroupingKeyFor(call.wr.Labels)].MetricFamilies :
                       result[1].ms[GroupingKeyFor(call.wr.Labels)].MetricFamilies[m].Name
                           = n}) = 1
            /\ IsFamilyMerge(
                   result[1].ms[GroupingKeyFor(call.wr.Labels)].MetricFamilies[n],
                   call.ms[GroupingKeyFor(call.wr.Labels)].MetricFamilies[n],
                   call.wr.MetricFamilies[1][n])

\* C31 witness: a counter foo of the series {a=x} and {} was merged into a
\* stored foo holding the series {} only: the store has one group, whose foo
\* holds {} with the sum of the values and, appended, {a=x}.
C31_Witness ==
    /\ MergedFamily("foo")
    /\ call.ms[GroupingKeyFor(call.wr.Labels)].MetricFamilies["foo"].Metric
           = <<Metric(<<>>, Sample(1))>>
    /\ call.wr.MetricFamilies[1]["foo"].Metric
           = <<Metric(<<LabelPair(NameA, ValX)>>, Sample(1)), Metric(<<>>, Sample(2))>>
    /\ Cardinality(DOMAIN result[1].ms) = 1
    /\ result[1].ms[GroupingKeyFor(call.wr.Labels)].MetricFamilies["foo"].Metric
           = <<Metric(<<>>, Sample(3)), Metric(<<LabelPair(NameA, ValX)>>, Sample(1))>>

\* The last call of processWriteRequest merged its request into the group of
\* its key, and that group held family n with another type than the request
\* gives it.
MergedMismatch(n) ==
    /\ call.fn = "processWriteRequest"
    /\ result # Nil
    /\ call.wr.MetricFamilies # Nil
    /\ ~call.wr.Replace
    /\ GroupingKeyFor(call.wr.Labels) \in DOMAIN call.ms
    /\ n \in DOMAIN call.wr.MetricFamilies[1]
    /\ n \in DOMAIN call.ms[GroupingKeyFor(call.wr.Labels)].MetricFamilies
    /\ call.ms[GroupingKeyFor(call.wr.Labels)].MetricFamilies[n].Type
           # call.wr.MetricFamilies[1][n].Type

\* C32: when processWriteRequest merges a request into a group that holds
\* one of the request's families with another type, the stored family of
\* that name is left exactly as it was, and every other family of the
\* request is merged into the stored family of its name and type, or added
\* when the group had none of that name.
C32_FailingFamilySkipped ==
    \A n \in {"foo", "bar"} :
        MergedMismatch(n) =>
            /\ result[1].ms[GroupingKeyFor(call.wr.Labels)].MetricFamilies[n]
                   = call.ms[GroupingKeyFor(call.wr.Labels)].MetricFamilies[n]
            /\ \A o \in DOMAIN call.wr.MetricFamilies[1] \ {n} :
                   /\ o \in DOMAIN result[1].ms[GroupingKeyFor(call.wr.Labels)].MetricFamilies
                   /\ o \notin DOMAIN call.ms[GroupingKeyFor(call.wr.Labels)].MetricFamilies
                          => result[1].ms[GroupingKeyFor(call.wr.Labels)].MetricFamilies[o]
                                 = call.wr.MetricFamilies[1][o]
                   /\ MergedFamily(o) =>
                          IsFamilyMerge(
                              result[1].ms[GroupingKeyFor(call.wr.Labels)].MetricFamilies[o],
                              call.ms[GroupingKeyFor(call.wr.Labels)].MetricFamilies[o],
                              call.wr.MetricFamilies[1][o])

\* C32 witness: foo as a gauge and bar as a counter of value 1 were merged
\* into a group holding foo as a counter and bar as a counter of value 2:
\* foo is the counter it was, bar has the value 3.
C32_Witness ==
    /\ MergedMismatch("foo")
    /\ MergedFamily("bar")
    /\ call.ms[GroupingKeyFor(call.wr.Labels)].MetricFamilies["bar"].Metric
           = <<Metric(<<>>, Sample(2))>>
    /\ result[1].ms[GroupingKeyFor(call.wr.Labels)].MetricFamilies["bar"].Metric
           = <<Metric(<<>>, Sample(3))>>
    /\ result[1].ms[GroupingKeyFor(call.wr.Labels)].MetricFamilies["foo"].Type = "COUNTER"

\* C33: a call of processWriteRequest with a nil families map leaves the
\* store without the group of the request's key; a call with a families map
\* that is empty but not nil leaves a group under the key, and, merged into
\* a group the store holds, leaves the store as it was.
C33_OnlyNilDeletes ==
    (call.fn = "processWriteRequest" /\ result # Nil) =>
        /\ call.wr.MetricFamilies = Nil =>
               result[1].ms = Without(call.ms, GroupingKeyFor(call.wr.Labels))
        /\ (call.wr.MetricFamilies # Nil /\ DOMAIN call.wr.MetricFamilies[1] = {}) =>
               /\ GroupingKeyFor(call.wr.Labels) \in DOMAIN result[1].ms
               /\ (~call.wr.Replace /\ GroupingKeyFor(call.wr.Labels) \in DOMAIN call.ms)
                      => result[1].ms = call.ms

\* C33 witness: an empty families map was merged into a group that holds a
\* family, and the group holds it still.
C33_Witness ==
    /\ call.fn = "processWriteRequest"
    /\ result # Nil
    /\ call.wr.MetricFamilies # Nil
    /\ DOMAIN call.wr.MetricFamilies[1] = {}
    /\ ~call.wr.Replace
    /\ GroupingKeyFor(call.wr.Labels) \in DOMAIN call.ms
    /\ DOMAIN call.ms[GroupingKeyFor(call.wr.Labels)].MetricFamilies # {}
    /\ result[1].ms = call.ms

\* The groups under the keys other than key are in ms2 what they are in ms1,
\* and ms2 has no key beside those of ms1 and key.
SameElsewhere(ms1, ms2, key) ==
    /\ DOMAIN ms2 \ {key} = DOMAIN ms1 \ {key}
    /\ \A k \in DOMAIN ms1 \ {key} : ms2[k] = ms1[k]

\* C34: no step of loop() on a request, whether it validates, applies or
\* refuses it, and whether it merges, replaces or deletes, changes a group
\* stored under another key than the request's, or adds or removes one.
C34_WritesAreLocal ==
    [][IF pc = "recv" THEN metricGroups' = metricGroups
       ELSE SameElsewhere(metricGroups, metricGroups', Key)]_vars

\* C34 witness: a request was applied and changed the store, in which
\* another key holds the group it held before.
C34_Witness ==
    /\ pc = "unlock"
    /\ metricGroups # before
    /\ \E k \in DOMAIN before \ {Key} :
           k \in DOMAIN metricGroups /\ metricGroups[k] = before[k]

\* Store ms holds the write of request w: under w's key a group with every
\* family of w and, in it, every series of w; the very families of w when w
\* replaces.
Reflects(ms, w) ==
    LET key == GroupingKeyFor(w.Labels)
        families == w.MetricFamilies[1]
    IN  /\ key \in DOMAIN ms
        /\ \A n \in DOMAIN families :
               /\ n \in DOMAIN ms[key].MetricFamilies
               /\ ms[key].MetricFamilies[n].Type = families[n].Type
               /\ SignaturesOf(families[n]) \subseteq
                      SignaturesOf(ms[key].MetricFamilies[n])
        /\ w.Replace => ms[key].MetricFamilies = families

\* loop() is about to close the Done of a checked push it accepted.
ClosesAccepted == pc = "close" /\ err = "nil" /\ wr.Done # Nil

\* C35: the handler of a checked push ends without an error only on the
\* closed and empty Done of a request loop() has finished and not refused;
\* while loop() still validates or applies the request its Done is open; and
\* when loop() comes to close the Done of an accepted request, the store,
\* which no writer holds any more, reflects the write.  A scrape taking the
\* read lock after the answer therefore reads that store or a later one.
C35_ReadYourWrites ==
    /\ [][\A id \in waiting :
              (HandlerEnds(id) /\ ~done[id].closed) => done[id].sent # <<>>]_vars
    /\ [][\A id \in waiting :
              (HandlerEnds(id) /\ done[id].sent = <<>>) => Finished(id)]_vars
    /\ [](\A id \in DOMAIN done : done[id].closed => Finished(id))
    /\ [](ClosesAccepted => (~lock.writer /\ Reflects(metricGroups, wr)))

\* C35 witness: a checked push was applied and answered without an error,
\* and a scrape holds the read lock on the store with its write.
C35_Witness ==
    /\ ~skipConsistencyCheck
    /\ nReceived = 1 /\ pc = "recv"
    /\ waiting = {} /\ status = StatusOK
    /\ metricGroups # <<>>
    /\ pcScrape = "copy"

\* This step is loop() taking a checked request that the validator accepts.
AcceptsChecked ==
    /\ pc = "recv" /\ pc' = "process"
    /\ Head(writeQueue).Done # Nil

\* The test storage as validateConsistency leaves it for the request at the
\* head of the queue: [ms, wr], the virtual store the gathering runs over and
\* the sanitized request as the trial left it.
TrialOfHead ==
    processWriteRequest(GetMetricGroups(metricGroups), Sanitized(Head(writeQueue)))

\* C36: when validateConsistency accepts a checked request, the request it
\* hands on to processWriteRequest is the sanitized request as it was before
\* the trial, and processWriteRequest makes of the store what the trial made
\* of the test storage.
C36_TrialAgreesWithApply ==
    [][AcceptsChecked =>
           /\ wr' = Sanitized(Head(writeQueue))
           /\ processWriteRequest(metricGroups', wr').ms = TrialOfHead.ms]_vars

\* The buckets b are in ascending order of their upper bounds, and their
\* cumulative counts do not decrease along them.
WellFormedBuckets(b) ==
    \A i, j \in DOMAIN b :
        i < j => /\ b[i].UpperBound < b[j].UpperBound
                 /\ b[i].CumulativeCount <= b[j].CumulativeCount

\* Every histogram of store ms has well-formed buckets.
WellFormedHistograms(ms) ==
    \A f \in StoredFamilies(ms) :
        f.Type = "HISTOGRAM" =>
            \A i \in DOMAIN f.Metric : WellFormedBuckets(f.Metric[i].Value.Bucket)

\* C37: the pushed histograms having their buckets in ascending order of the
\* upper bounds with non-decreasing cumulative counts, every stored
\* histogram has, whatever was merged into it.
C37_MergedHistogramsWellFormed == WellFormedHistograms(metricGroups)

\* The threads that hold the write lock, and those that hold the read lock.
Writers ==
    (IF pc \in {"apply", "unlock"} THEN {"loop"} ELSE {})
    \cup (IF pcHealth = "check" THEN {"Healthy"} ELSE {})
Readers ==
    (IF pcScrape = "copy" THEN {"GetMetricFamilies"} ELSE {})
    \cup (IF pcGroups = "copy" THEN {"GetMetricGroups"} ELSE {})

\* The lock is held by one writer or by readers, never both, and by the
\* threads that stand between their acquisition and their release: no
\* thread is at an acquisition while it holds the lock.
LockHeldProperly ==
    /\ lock.writer <=> Writers # {}
    /\ Cardinality(Writers) <= 1
    /\ lock.readers = Cardinality(Readers)
    /\ ~(lock.writer /\ lock.readers > 0)

\* C38: the store lock is held by the threads between their Lock or RLock
\* and the deferred release only, by one writer or by readers; every thread
\* that has acquired it releases it; and loop() waiting for its snapshot or
\* for the write lock, the scrape and the health probe get the lock again
\* and again, so none waits for ever.
C38_LockProtocol ==
    /\ []LockHeldProperly
    /\ (pc \in {"apply", "unlock"}) ~> (pc = "close")
    /\ (pcHealth = "check") ~> (pcHealth = "idle")
    /\ (pcScrape = "copy") ~> (pcScrape = "return")
    /\ (pc = "process") ~> (pc = "apply")
    /\ (pc = "recv" /\ writeQueue # <<>>) ~> (pc # "recv")
    /\ []<>(pcScrape = "copy")
    /\ []<>(pcHealth = "check")

\* C38 witness: loop() stands at ms.lock.Lock() with a merge while the scrape
\* holds the read lock.
C38_Witness ==
    /\ pc = "process"
    /\ pcScrape = "copy"
    /\ lock.readers = 1 /\ ~lock.writer
    /\ metricGroups # <<>>

====
